---- MODULE Spec2Model ----
(***************************************************************************)
(* A model of the simulation core of the plane game: the flight controller *)
(* (PlaneController), the weapon system (WeaponSystem), the adversary      *)
(* manager (UFOManager) and the game state (GameManager).                  *)
(*                                                                         *)
(* Numbers.  The program computes in floating point; the model computes in *)
(* fixed point and truncates toward zero:                                  *)
(*   angles     in units of 0.02 rad                                       *)
(*   aircraft positions and speeds in whole world units (per second)       *)
(*   times      in milliseconds                                            *)
(*                                                                         *)
(* Scheduling.  Every handler (a useFrame callback, a key listener, a      *)
(* timer callback) runs to completion: one action each.  A React setState  *)
(* call made inside a handler is queued and committed by a later Render    *)
(* step; a handler closes over the state of the last committed render.     *)
(***************************************************************************)
EXTENDS Integers, Sequences, FiniteSets, TLC

VARIABLES
    \* ---- PlaneController ------------------------------------------------
    rotationState,      \* rotationStateRef.current: [pitch, yaw, roll]
    quaternion,         \* planeRef.current.quaternion, by its YXZ Euler angles
    position,           \* planeRef.current.position, <<x, y, z>>
    speed,              \* useState speed (committed)
    isColliding,        \* useState isColliding (committed)
    collisionMessage,   \* useState collisionMessage (committed): "", "ground", "building"
    planeQueue,         \* setState calls of PlaneController not yet rendered
    collisionAge,       \* Date.now() - lastCollisionTime.current, saturating at COLLISION_COOLDOWN
    BUILDING_REGISTRY,  \* the static registry: id -> [position, size]
    driven,             \* the control axis this behaviour exercises
    flightObs,          \* the collision the last frame detected, and whether it was handled
    \* ---- WeaponSystem ---------------------------------------------------
    projectiles,        \* useState projectiles (committed): sequence of ProjectileData
    projQueue,          \* setProjectiles calls not yet rendered
    fireAge,            \* Date.now() - lastFireTime.current, saturating at cooldownPeriod
    shots,              \* accepted fires so far (stands for Date.now() in projectile ids)
    lifetime,           \* Projectile components: id -> lifetime.current (ms)
    \* ---- UFOManager -----------------------------------------------------
    ufos,               \* useState ufos (committed): sequence of UFOData
    ufoQueue,           \* setUfos calls not yet rendered
    UFO_REGISTRY,       \* window.UFO_REGISTRY: a Map in insertion order, <<[id, position]>>
    timeSinceLastSpawn, \* timeSinceLastSpawn.current (ms)
    spawned,            \* adversaries spawned so far (stands for Date.now() in ufo ids)
    explosions,         \* useState explosions: sequence of ExplosionData
    timers,             \* pending setTimeout callbacks, in firing order
    \* ---- GameManager ----------------------------------------------------
    gameState,          \* useState gameState: [score, ufoCount, playerHealth, gameStatus]
    ufoRegistry,        \* GameManager's ufoRegistry.current (its keys)
    projectileRegistry, \* GameManager's projectileRegistry.current (its keys)
    \* ---- observation ----------------------------------------------------
    combatObs,          \* the last handler that ran, and what its collision pass saw and did
    clock,              \* ms since the first fire request (fire-rate scenario), since the last frame (explosion scenario); parity of the frames run (population scenario)
    fireLog,            \* the fire requests so far: <<[at, accepted]>> (fire-rate scenario only)
    registryObs,        \* the last operation on the static registry, and the last query's probe and answer
    \* ---- the frame loop and the camera ------------------------------------
    subscribers,        \* the useFrame subscriptions, in the order the loop calls them
    cameraRef,          \* cameraRef.current: [position, yaw] of the camera rig
    camera,             \* the three.js camera: [position, target it looks at]
    freeCamMode,        \* useState freeCamMode (committed)
    ticks,              \* frames run so far (whole-loop scenario only)
    loopObs,            \* the last handler of the whole-loop scenario: [op, delta, log]
    \* ---- the recovery scenario -------------------------------------------
    recoveryObs,        \* the last handler, whether a reset has ended a recovery, the last frame's inputs
    \* ---- the camera scenario ---------------------------------------------
    keysPressed,        \* keysPressed.current, the keys of the scenario: [q, e, c]
    twin,               \* a second run of PlaneController under a camera that stands elsewhere
    \* ---- the aircraft's group --------------------------------------------
    planeRef,           \* planeRef.current is the aircraft's group (TRUE) or null (FALSE)
    \* ---- the adversaries' flight ------------------------------------------
    aiObs               \* the last handler of the AI scenario and what its AI update did, per adversary

flightVars == <<rotationState, quaternion, position, speed, isColliding,
                collisionMessage, planeQueue, collisionAge, BUILDING_REGISTRY,
                driven, flightObs>>

combatVars == <<projectiles, projQueue, fireAge, shots, lifetime, ufos, ufoQueue,
                UFO_REGISTRY, timeSinceLastSpawn, spawned, explosions, timers,
                gameState, ufoRegistry, projectileRegistry, combatObs, clock, fireLog>>

sceneVars == <<registryObs, subscribers, cameraRef, camera, freeCamMode, ticks, loopObs>>

caseVars == <<recoveryObs, keysPressed, twin, planeRef, aiObs>>

vars == <<flightVars, combatVars, sceneVars, caseVars>>

(***************************************************************************)
(* Arithmetic helpers                                                      *)
(***************************************************************************)
Min(a, b) == IF a < b THEN a ELSE b

Max(a, b) == IF a > b THEN a ELSE b

Abs(a) == IF a < 0 THEN -a ELSE a

\* Division truncating toward zero (the fixed-point rounding of the model).
TDiv(a, b) == IF a >= 0 THEN a \div b ELSE -((-a) \div b)

\* MathUtils.clamp(x, lo, hi) == Math.max(lo, Math.min(hi, x))
Clamp(x, lo, hi) == Max(lo, Min(hi, x))

(***************************************************************************)
(* Bounds of the exploration                                               *)
(***************************************************************************)
\* Frames above this altitude are not explored.
MaxAltitude == 30

\* Frames more than this far below altitude 0 are not explored.
MaxDepth == 0

(***************************************************************************)
(* PlaneController: constants                                              *)
(***************************************************************************)
PI == 157                            \* Math.PI = 3.14159 rad

MAX_SPEED == 50

MIN_SPEED == 10

ACCELERATION == 10

PITCH_SENSITIVITY == 40              \* 0.8 rad/s

ROLL_SENSITIVITY == 100              \* 2.0 rad/s

TURN_SENSITIVITY_X2 == 3             \* 1.5 per second, doubled

AUTO_LEVEL_SPEED == 2

MAX_PITCH_ANGLE == PI \div 3         \* Math.PI / 3

MAX_ROLL_ANGLE == PI \div 4          \* Math.PI / 4

PLANE_COLLISION_RADIUS == 2

GROUND_LEVEL == 1

COLLISION_COOLDOWN == 1000           \* ms

MAX_DELTA == 100                     \* Math.min(delta, 0.1)

SPAWN_SPEED == 30                     \* useState(30)

SpawnRotation == [pitch |-> -5, yaw |-> 0, roll |-> 0]   \* {pitch: -0.1, yaw: 0, roll: 0}

IdentityQuaternion == [pitch |-> 0, yaw |-> 0, roll |-> 0]   \* quaternion (0, 0, 0, 1)

startPosition == <<0, 30, -50>>      \* new Vector3(0, 30, -50)

Axis == {-1, 0, 1}

\* The pending setState calls of PlaneController.  setSpeed, setIsColliding and
\* setCollisionMessage are called with values, so the last call of each wins.
NoQueue == [hasSpeed |-> FALSE, speed |-> 0, hasColliding |-> FALSE,
            isColliding |-> FALSE, collisionMessage |-> ""]

\* Frame times explored for the flight controller (ms); 500 is an oversized delta.
FlightDeltas == {100, 500}

\* The obstacles the world generator may register: position and size.
BuildingIds == {"b1"}

BuildingCatalogue ==
    { [position |-> <<0, 20, -50>>, size |-> <<10, 40, 10>>] }   \* a tower across the flight path

(***************************************************************************)
(* PlaneController: pure helpers                                           *)
(***************************************************************************)
\* Variant of NormalizeDown: angles above PI are not wrapped.
NormalizeDownNever(angle) == angle

RECURSIVE NormalizeDown(_)
\* while (angle > Math.PI) angle -= 2 * Math.PI;
NormalizeDown(angle) == IF angle > PI THEN NormalizeDown(angle - 2 * PI) ELSE angle

RECURSIVE NormalizeUp(_)
\* while (angle < -Math.PI) angle += 2 * Math.PI;
NormalizeUp(angle) == IF angle < -PI THEN NormalizeUp(angle + 2 * PI) ELSE angle

normalizeAngle(angle) == NormalizeUp(NormalizeDown(angle))

\* MathUtils.lerp(x, y, t) == x + (y - x) * t, with t given in thousandths.
Lerp(x, y, tMilli) == x + TDiv((y - x) * tMilli, 1000)

\* new Euler().setFromQuaternion(q, 'YXZ'): for |pitch| < PI/2 the angles the
\* quaternion was built from, the yaw as Math.atan2 returns it, in [-PI, PI].
SetFromQuaternion(q) ==
    [pitch |-> q.pitch,
     yaw   |-> IF q.yaw > PI THEN NormalizeDown(q.yaw)
               ELSE IF q.yaw < -PI THEN NormalizeUp(q.yaw) ELSE q.yaw,
     roll  |-> q.roll]

\* quaternion.setFromEuler(new Euler(pitch, yaw, roll, 'YXZ'))
SetFromEuler(pitch, yaw, roll) == [pitch |-> pitch, yaw |-> yaw, roll |-> roll]

\* 1000 * sin(a) for a in [-PI, PI], by Bhaskara's rational approximation
\* sin x = 16 x (pi - x) / (5 pi^2 - 4 x (pi - x)), 0 <= x <= pi.
SinMilli(a) ==
    LET x == Abs(a)
        s == (16000 * x * (PI - x)) \div (5 * PI * PI - 4 * x * (PI - x))
    IN  IF a < 0 THEN -s ELSE s

\* forwardDirection.multiplyScalar(newSpeed * clampedDelta): the vertical part is
\* sin(pitch) * newSpeed * clampedDelta.  The horizontal displacement (which needs
\* the yaw and grows without bound) is not integrated: x and z stay put.
Movement(pitch, newSpeed, clampedDelta) ==
    <<0, TDiv(SinMilli(pitch) * newSpeed * clampedDelta, 1000000), 0>>

AddVec(a, b) == <<a[1] + b[1], a[2] + b[2], a[3] + b[3]>>

\* Variant of IntersectsSphere: the sphere is taken for its bounding cube.
IntersectsSphereAsCube(bmin, bmax, center, radius) ==
    /\ Abs(Clamp(center[1], bmin[1], bmax[1]) - center[1]) <= radius
    /\ Abs(Clamp(center[2], bmin[2], bmax[2]) - center[2]) <= radius
    /\ Abs(Clamp(center[3], bmin[3], bmax[3]) - center[3]) <= radius

\* Box3.intersectsSphere: clamp the centre to the box, compare the squared distance.
IntersectsSphere(bmin, bmax, center, radius) ==
    LET cx == Clamp(center[1], bmin[1], bmax[1])
        cy == Clamp(center[2], bmin[2], bmax[2])
        cz == Clamp(center[3], bmin[3], bmax[3])
        dx == cx - center[1]
        dy == cy - center[2]
        dz == cz - center[3]
    IN  dx * dx + dy * dy + dz * dz <= radius * radius

checkBuildingCollisions(registry, planePosition) ==
    \E id \in DOMAIN registry :
        LET b == registry[id]
        IN  IntersectsSphere(
              <<b.position[1] - b.size[1] \div 2, b.position[2] - b.size[2] \div 2,
                b.position[3] - b.size[3] \div 2>>,
              <<b.position[1] + b.size[1] \div 2, b.position[2] + b.size[2] \div 2,
                b.position[3] + b.size[3] \div 2>>,
              planePosition, PLANE_COLLISION_RADIUS)

checkGroundCollision(planePosition) ==
    planePosition[2] - PLANE_COLLISION_RADIUS < GROUND_LEVEL

\* Variant of NewPitch: the driven pitch is not clamped.
NewPitchUnclamped(pitch, pitchInput, clampedDelta) ==
    IF pitchInput # 0
      THEN pitch + pitchInput
      ELSE Lerp(pitch, 0, AUTO_LEVEL_SPEED * clampedDelta)

\* The pitch after one tick: driven and clamped, or auto-levelled.
NewPitch(pitch, pitchInput, clampedDelta) ==
    IF pitchInput # 0
      THEN Clamp(pitch + pitchInput, -MAX_PITCH_ANGLE, MAX_PITCH_ANGLE)
      ELSE Lerp(pitch, 0, AUTO_LEVEL_SPEED * clampedDelta)

\* The roll after one tick: driven and clamped, or auto-levelled.
NewRoll(roll, rollInput, clampedDelta) ==
    IF rollInput # 0
      THEN Clamp(roll + rollInput, -MAX_ROLL_ANGLE, MAX_ROLL_ANGLE)
      ELSE Lerp(roll, 0, AUTO_LEVEL_SPEED * clampedDelta)

\* Variant of NewYaw: the aircraft turns whenever it is banked.
NewYawWhileBanked(yaw, newRoll, rollInput, clampedDelta) ==
    normalizeAngle(yaw + TDiv(-newRoll * TURN_SENSITIVITY_X2 * clampedDelta, 2000))

\* The yaw after one tick: bank-proportional turning while roll is driven, then
\* normalizeAngle.
NewYaw(yaw, newRoll, rollInput, clampedDelta) ==
    normalizeAngle(
      IF rollInput # 0
        THEN yaw + TDiv(-newRoll * TURN_SENSITIVITY_X2 * clampedDelta, 2000)
        ELSE yaw)

\* MathUtils.clamp(speed + speedInput, MIN_SPEED, MAX_SPEED)
NewSpeed(oldSpeed, speedInput) == Clamp(oldSpeed + speedInput, MIN_SPEED, MAX_SPEED)

\* Math.max(MIN_SPEED, speed * 0.3)
\* Variant of CollisionSpeed: no floor at MIN_SPEED.
CollisionSpeedUnfloored(oldSpeed) == TDiv(oldSpeed * 3, 10)

CollisionSpeed(oldSpeed) == Max(MIN_SPEED, TDiv(oldSpeed * 3, 10))

\* Variant of ProcessesInput: the frame callback does not look at isColliding.
ProcessesInputAlways(colliding) == TRUE

\* if (!isColliding): the frame callback processes the input, turns and moves
\* the aircraft only outside the recovery mode.
ProcessesInput(colliding) == ~colliding

\* Date.now() - lastCollisionTime.current after d more milliseconds.
Age(age, d, cap) == Min(age + d, cap)

(***************************************************************************)
(* PlaneController: handlers                                               *)
(***************************************************************************)
\* Variant of handleCollision: no cooldown.
handleCollisionAlways(type, q, age) ==
    [q EXCEPT !.hasColliding = TRUE, !.isColliding = TRUE,
              !.collisionMessage = type,
              !.hasSpeed = TRUE, !.speed = CollisionSpeed(speed)]

\* Variant of handleCollision: a collision inside the cooldown ends the recovery.
handleCollisionEndsRecovery(type, q, age) ==
    IF age < COLLISION_COOLDOWN
      THEN [q EXCEPT !.hasColliding = TRUE, !.isColliding = FALSE, !.collisionMessage = ""]
      ELSE [q EXCEPT !.hasColliding = TRUE, !.isColliding = TRUE,
                     !.collisionMessage = type,
                     !.hasSpeed = TRUE, !.speed = CollisionSpeed(speed)]

\* handleCollision(type): dropped inside the cooldown, otherwise the recovery
\* state and the reduced speed are queued.  q is the queue after setSpeed(newSpeed).
handleCollision(type, q, age) ==
    IF age < COLLISION_COOLDOWN
      THEN q
      ELSE [q EXCEPT !.hasColliding = TRUE, !.isColliding = TRUE,
                     !.collisionMessage = type,
                     !.hasSpeed = TRUE, !.speed = CollisionSpeed(speed)]

\* setSpeed(value).  React drops a setState whose value is the committed one when
\* nothing else is queued for that state.
SetSpeed(q, value) ==
    IF ~q.hasSpeed /\ value = speed THEN q
    ELSE [q EXCEPT !.hasSpeed = TRUE, !.speed = value]

\* The useFrame callback of PlaneController (flight part), d ms after the last
\* frame, with the control axes the pressed keys add up to.
FlightFrame(d, pitchAxis, rollAxis, speedAxis) ==
    LET clampedDelta == Min(d, MAX_DELTA)
        age          == Age(collisionAge, d, COLLISION_COOLDOWN)
        euler        == SetFromQuaternion(quaternion)
        rs0          == [pitch |-> euler.pitch, yaw |-> normalizeAngle(euler.yaw),
                         roll |-> euler.roll]
        pitchInput   == TDiv(pitchAxis * PITCH_SENSITIVITY * clampedDelta, 1000)
        rollInput    == TDiv(rollAxis * ROLL_SENSITIVITY * clampedDelta, 1000)
        speedInput   == TDiv(speedAxis * ACCELERATION * clampedDelta, 1000)
        newSpeed     == NewSpeed(speed, speedInput)
        pitch1       == NewPitch(rs0.pitch, pitchInput, clampedDelta)
        roll1        == NewRoll(rs0.roll, rollInput, clampedDelta)
        yaw1         == NewYaw(rs0.yaw, roll1, rollInput, clampedDelta)
        newPosition  == AddVec(position, Movement(pitch1, newSpeed, clampedDelta))
        ground       == checkGroundCollision(newPosition)
        building     == ~ground /\ checkBuildingCollisions(BUILDING_REGISTRY, newPosition)
        q1           == SetSpeed(planeQueue, newSpeed)
        q2           == IF ground THEN handleCollision("ground", q1, age)
                        ELSE IF building THEN handleCollision("building", q1, age)
                        ELSE q1
    IN  /\ position[2] <= MaxAltitude
        /\ position[2] >= -MaxDepth
        /\ IF ~ProcessesInput(isColliding)
             THEN /\ rotationState' = rs0
                  /\ collisionAge' = age
                  /\ flightObs' = [collision |-> "none", handled |-> FALSE]
                  /\ UNCHANGED <<quaternion, position, planeQueue>>
             ELSE /\ rotationState' = [pitch |-> pitch1, yaw |-> yaw1, roll |-> roll1]
                  /\ quaternion' = SetFromEuler(pitch1, yaw1, roll1)
                  /\ planeQueue' = q2
                  /\ collisionAge' = IF (ground \/ building) /\ age >= COLLISION_COOLDOWN
                                     THEN 0 ELSE age
                  /\ position' = newPosition
                  /\ flightObs' = [collision |-> IF ground THEN "ground"
                                                 ELSE IF building THEN "building" ELSE "none",
                                   handled |-> (ground \/ building) /\ age >= COLLISION_COOLDOWN]
        /\ UNCHANGED <<speed, isColliding, collisionMessage, BUILDING_REGISTRY, driven>>

\* One frame: the axes of the scenario's driven control are free, the others idle.
Frame ==
    \E d \in FlightDeltas :
      \E pitchAxis \in (IF driven = "pitch" THEN Axis ELSE {0}) :
        \E rollAxis \in (IF driven = "roll" THEN Axis ELSE {0}) :
          \E speedAxis \in (IF driven = "speed" THEN Axis ELSE {0}) :
            FlightFrame(d, pitchAxis, rollAxis, speedAxis)

\* React commits the queued state of PlaneController.
RenderPlane ==
    /\ planeQueue # NoQueue
    /\ speed' = IF planeQueue.hasSpeed THEN planeQueue.speed ELSE speed
    /\ isColliding' = IF planeQueue.hasColliding THEN planeQueue.isColliding ELSE isColliding
    /\ collisionMessage' = IF planeQueue.hasColliding THEN planeQueue.collisionMessage
                           ELSE collisionMessage
    /\ planeQueue' = NoQueue
    /\ UNCHANGED <<rotationState, quaternion, position, collisionAge,
                   BUILDING_REGISTRY, driven, flightObs>>

\* Variant of resetPlane: the recovery state is left as it is.
resetPlaneKeepsRecovery ==
    /\ position' = startPosition
    /\ quaternion' = IdentityQuaternion
    /\ rotationState' = SpawnRotation
    /\ speed' = SPAWN_SPEED
    /\ planeQueue' = [planeQueue EXCEPT !.hasSpeed = FALSE]
    /\ UNCHANGED <<isColliding, collisionMessage, collisionAge, BUILDING_REGISTRY, driven,
                   flightObs>>

\* resetPlane, from the keydown listener (key R).  The listener's setState calls
\* are rendered synchronously and come last in the queue, so they win over
\* whatever a frame had queued.
resetPlane ==
    /\ position' = startPosition
    /\ quaternion' = IdentityQuaternion
    /\ rotationState' = SpawnRotation
    /\ speed' = SPAWN_SPEED
    /\ isColliding' = FALSE
    /\ collisionMessage' = ""
    /\ planeQueue' = NoQueue
    /\ UNCHANGED <<collisionAge, BUILDING_REGISTRY, driven, flightObs>>

\* Variant of registerBuilding: an id that is present keeps its entry.
registerBuildingIfAbsent(id, b) ==
    /\ BUILDING_REGISTRY' =
          [k \in DOMAIN BUILDING_REGISTRY \cup {id} |->
             IF k \in DOMAIN BUILDING_REGISTRY THEN BUILDING_REGISTRY[k] ELSE b]
    /\ UNCHANGED <<rotationState, quaternion, position, speed, isColliding,
                   collisionMessage, planeQueue, collisionAge, driven, flightObs>>

\* City.registerBuilding: BUILDING_REGISTRY.set(id, {position, size})
registerBuilding(id, b) ==
    /\ BUILDING_REGISTRY' =
          [k \in DOMAIN BUILDING_REGISTRY \cup {id} |->
             IF k = id THEN b ELSE BUILDING_REGISTRY[k]]
    /\ UNCHANGED <<rotationState, quaternion, position, speed, isColliding,
                   collisionMessage, planeQueue, collisionAge, driven, flightObs>>

\* City.unregisterBuilding: BUILDING_REGISTRY.delete(id)
unregisterBuilding(id) ==
    /\ BUILDING_REGISTRY' =
          [k \in DOMAIN BUILDING_REGISTRY \ {id} |-> BUILDING_REGISTRY[k]]
    /\ UNCHANGED <<rotationState, quaternion, position, speed, isColliding,
                   collisionMessage, planeQueue, collisionAge, driven, flightObs>>

\* The city streams in and out (only the "speed" scenario flies over the city).
WorldGenerator ==
    /\ driven = "speed"
    /\ \E id \in BuildingIds :
          \/ \E b \in BuildingCatalogue : registerBuilding(id, b)
          \/ unregisterBuilding(id)

InitPlane ==
    /\ rotationState = SpawnRotation
    /\ quaternion = IdentityQuaternion
    /\ position = startPosition
    /\ speed = SPAWN_SPEED
    /\ isColliding = FALSE
    /\ collisionMessage = ""
    /\ planeQueue = NoQueue
    /\ collisionAge = COLLISION_COOLDOWN      \* lastCollisionTime = 0, long ago
    /\ BUILDING_REGISTRY = << >>
    /\ flightObs = [collision |-> "none", handled |-> FALSE]

(***************************************************************************)
(* WeaponSystem, UFOManager, GameManager: constants                        *)
(* Positions in tenths of a world unit, directions in thousandths.         *)
(***************************************************************************)
PROJECTILE_RADIUS == 3               \* 0.3

UFO_RADIUS == 80                     \* 8.0

PROJECTILE_SPEED == 700              \* 70 * delta, per second

GUN_OFFSET == 5                      \* new Vector3(0.5, 0, 0)

cooldownPeriod == 200                \* ms

maxLifetime == 3000                  \* Projectile: maxLifetime = 3 s

EXPLOSION_LIFETIME == 600            \* Explosion: maxLifetime = 0.6 s

POPULATION_FLOOR == 5                \* ufos.length < 5

SPAWN_COOLDOWN == 2000               \* timeSinceLastSpawn.current > 2

HIT_SCORE == 100                     \* score: prev.score + 100

\* Bounds of the exploration.
InitialUfos == 5                     \* adversaries alive at the start (the game mounts 10)

MaxShots == 1                        \* accepted fires per behaviour with adversaries

MaxSpawns == 2                       \* spawns per behaviour

MaxNear == 2                         \* adversaries inside the engagement area at once

MaxUnrendered == 1                   \* frames React may fall behind

MaxClock == 250                      \* ms of the fire-rate scenario

\* The spacing of the instants at which the fire key may be pressed (ms).
ElapseSteps == {50}

\* timeSinceLastSpawn.current is not followed beyond this value (ms).
SpawnClockCap == SPAWN_COOLDOWN + 1000

\* lifetime.current of a projectile is not followed beyond this value (ms).
LifetimeCap == maxLifetime + 1000

\* Frame times explored for the weapon system and the adversaries (ms).
CombatDeltas == {500, 1000}

\* The cells an adversary is in: far away (where it spawns), on the line of fire
\* one second of projectile flight ahead of the spawn pose, or beside that point
\* so that only the right gun's projectile passes within hit range.
Far == <<2000, 300, -500>>

Ahead == <<0, 300, -1200>>

Side == <<80, 300, -1200>>

UfoCells == {Far, Ahead, Side}

(***************************************************************************)
(* Vectors and rotations                                                   *)
(***************************************************************************)
\* 1000 * cos(a) for a in [-PI, PI], by Bhaskara's approximation
\* cos x = (pi^2 - 4 x^2) / (pi^2 + x^2), |x| <= pi/2.
CosMilli(a) ==
    LET x == Abs(a)
        y == PI - x
    IN  IF 2 * x <= PI
          THEN (1000 * (PI * PI - 4 * x * x)) \div (PI * PI + x * x)
          ELSE -((1000 * (PI * PI - 4 * y * y)) \div (PI * PI + y * y))

\* new Vector3(0, 0, -1).applyQuaternion(q).normalize(), in thousandths
Forward(q) ==
    <<TDiv(-SinMilli(q.yaw) * CosMilli(q.pitch), 1000),
      SinMilli(q.pitch),
      TDiv(-CosMilli(q.yaw) * CosMilli(q.pitch), 1000)>>

\* new Vector3(side * 0.5, 0, 0).applyQuaternion(q), in tenths (side = 1 or -1)
GunOffset(q, side) ==
    LET rx == TDiv(CosMilli(q.yaw) * CosMilli(q.roll), 1000)
                + TDiv(TDiv(SinMilli(q.yaw) * SinMilli(q.pitch), 1000) * SinMilli(q.roll), 1000)
        ry == TDiv(CosMilli(q.pitch) * SinMilli(q.roll), 1000)
        rz == TDiv(-SinMilli(q.yaw) * CosMilli(q.roll), 1000)
                + TDiv(TDiv(CosMilli(q.yaw) * SinMilli(q.pitch), 1000) * SinMilli(q.roll), 1000)
    IN  <<TDiv(side * GUN_OFFSET * rx, 1000), TDiv(side * GUN_OFFSET * ry, 1000),
          TDiv(side * GUN_OFFSET * rz, 1000)>>

\* planeRef.current.position in tenths
PlanePosition == <<position[1] * 10, position[2] * 10, position[3] * 10>>

\* a.distanceTo(b), squared
DistSq(a, b) ==
    (a[1] - b[1]) * (a[1] - b[1]) + (a[2] - b[2]) * (a[2] - b[2])
      + (a[3] - b[3]) * (a[3] - b[3])

\* distance < PROJECTILE_RADIUS + UFO_RADIUS
InRange(projectilePosition, ufoPosition) ==
    DistSq(projectilePosition, ufoPosition)
      < (PROJECTILE_RADIUS + UFO_RADIUS) * (PROJECTILE_RADIUS + UFO_RADIUS)

\* Variant of Advance: the projectile is steered, it takes the aircraft's forward
\* direction of the moment.
AdvanceSteered(projectile, d) ==
    [projectile EXCEPT
        !.direction = Forward(quaternion),
        !.position =
          <<@[1] + TDiv(Forward(quaternion)[1] * PROJECTILE_SPEED * d, 1000000),
            @[2] + TDiv(Forward(quaternion)[2] * PROJECTILE_SPEED * d, 1000000),
            @[3] + TDiv(Forward(quaternion)[3] * PROJECTILE_SPEED * d, 1000000)>>]

\* position + direction * (70 * delta)
Advance(projectile, d) ==
    [projectile EXCEPT !.position =
        <<@[1] + TDiv(projectile.direction[1] * PROJECTILE_SPEED * d, 1000000),
          @[2] + TDiv(projectile.direction[2] * PROJECTILE_SPEED * d, 1000000),
          @[3] + TDiv(projectile.direction[3] * PROJECTILE_SPEED * d, 1000000)>>]

(***************************************************************************)
(* Sequences as ordered collections                                        *)
(***************************************************************************)
Ids(list) == {list[i].id : i \in 1..Len(list)}

Without(list, ids) == SelectSeq(list, LAMBDA e : e.id \notin ids)

\* Map.set(id, {position}): in place when the key exists, else appended
RegistrySet(reg, id, pos) ==
    IF id \in Ids(reg)
      THEN [i \in 1..Len(reg) |->
              IF reg[i].id = id THEN [id |-> id, position |-> pos] ELSE reg[i]]
      ELSE Append(reg, [id |-> id, position |-> pos])

\* Map.delete(id)
RegistryDelete(reg, id) == Without(reg, {id})

\* Map.get(id).position
RegistryGet(reg, id) == reg[CHOOSE i \in 1..Len(reg) : reg[i].id = id].position

(***************************************************************************)
(* The state the handlers of the weapon system and the adversaries work on *)
(***************************************************************************)
World ==
    [UFO_REGISTRY |-> UFO_REGISTRY, ufoQueue |-> ufoQueue, timers |-> timers,
     gameState |-> gameState, ufoRegistry |-> ufoRegistry,
     projectileRegistry |-> projectileRegistry, projQueue |-> projQueue,
     projectilesToRemove |-> {}, hitUFOs |-> {}]

\* The entries of the setState queues and of the timer queue.
ProjUpdate(op, items, ids, d) == [op |-> op, items |-> items, ids |-> ids, delta |-> d]

UfoUpdate(op, items, id) == [op |-> op, items |-> items, id |-> id]

TimerEntry(kind, id, pos) == [kind |-> kind, id |-> id, position |-> pos]

(***************************************************************************)
(* GameManager                                                             *)
(* setGameState is called with pure updaters and no handler reads          *)
(* gameState, so every update is applied where it is made.                 *)
(***************************************************************************)
\* Variant of registerUFO: a registration also raises the level.
registerUFOLevelUp(w, id) ==
    LET r == w.ufoRegistry \cup {id}
    IN  [w EXCEPT !.ufoRegistry = r, !.gameState.ufoCount = Cardinality(r),
                  !.gameState.level = @ + 1]

registerUFO(w, id) ==
    LET r == w.ufoRegistry \cup {id}
    IN  [w EXCEPT !.ufoRegistry = r, !.gameState.ufoCount = Cardinality(r)]

\* Variant of unregisterUFO: the count is decremented, whether the id was
\* registered or not.
unregisterUFOCountingDown(w, id) ==
    [w EXCEPT !.ufoRegistry = @ \ {id}, !.gameState.ufoCount = @ - 1]

unregisterUFO(w, id) ==
    LET r == w.ufoRegistry \ {id}
    IN  [w EXCEPT !.ufoRegistry = r, !.gameState.ufoCount = Cardinality(r)]

registerProjectile(w, id) == [w EXCEPT !.projectileRegistry = @ \cup {id}]

unregisterProjectile(w, id) == [w EXCEPT !.projectileRegistry = @ \ {id}]

\* Variant of reportUFOHit: the score is left as it is.
reportUFOHitUnscored(w, ufoId) == unregisterUFO(w, ufoId)

reportUFOHit(w, ufoId) ==
    unregisterUFO([w EXCEPT !.gameState.score = @ + HIT_SCORE], ufoId)

(***************************************************************************)
(* UFOManager                                                              *)
(***************************************************************************)
\* handleUFOHit(ufoId, position)
handleUFOHit(w, ufoId, hitPosition) ==
    LET w1 == [w EXCEPT !.UFO_REGISTRY = RegistryDelete(@, ufoId)]
        w2 == reportUFOHit(w1, ufoId)
        w3 == [w2 EXCEPT !.ufoQueue = Append(@, UfoUpdate("filter", << >>, ufoId))]
    IN  [w3 EXCEPT !.timers = Append(@, TimerEntry("explosion", ufoId, hitPosition))]

\* The cell changes of one AI update: the first adversary (in collection order)
\* that is far away enters the given cell, unless the engagement area is full.
\* Inside its cell an adversary's movement does not change what the model sees.
AiMove(list, cell) ==
    LET far  == {i \in 1..Len(list) : list[i].position = Far}
        near == (1..Len(list)) \ far
    IN  IF cell = Far \/ far = {} \/ Cardinality(near) >= MaxNear THEN list
        ELSE LET first == CHOOSE i \in far : \A j \in far : i <= j
             IN  [list EXCEPT ![first].position = cell]

RECURSIVE RegistrySetAll(_, _, _)
\* UFO_REGISTRY.set(ufo.id, {position: newPosition}) for every mapped adversary
RegistrySetAll(reg, list, i) ==
    IF i > Len(list) THEN reg
    ELSE RegistrySetAll(RegistrySet(reg, list[i].id, list[i].position), list, i + 1)

\* The AI updater of setUfos, run on prevUfos: the new collection and the registry
\* its side effect leaves.
AiUpdate(prevUfos, reg, cell) ==
    LET updatedUfos == AiMove(prevUfos, cell)
    IN  [ufos |-> updatedUfos, registry |-> RegistrySetAll(reg, updatedUfos, 1)]

\* Variant of ShouldSpawn: the floor is one lower.
ShouldSpawnBelowFloor(liveCount, sinceLastSpawn) ==
    liveCount < POPULATION_FLOOR - 1 /\ sinceLastSpawn > SPAWN_COOLDOWN

\* Variant of ShouldSpawn: the population is not looked at.
ShouldSpawnUncounted(liveCount, sinceLastSpawn) == sinceLastSpawn > SPAWN_COOLDOWN

\* The spawn gate of the frame callback.
ShouldSpawn(liveCount, sinceLastSpawn) ==
    liveCount < POPULATION_FLOOR /\ sinceLastSpawn > SPAWN_COOLDOWN

\* The useFrame callback of UFOManager.  React runs an updater at once when
\* nothing is queued for the component, and at the next render otherwise.
UFOManagerFrame(w, d, cell) ==
    LET since == Age(timeSinceLastSpawn, d, SpawnClockCap)
        spawn == ShouldSpawn(Len(ufos), since)
        id    == InitialUfos + spawned
        w1    == IF spawn
                   THEN [registerUFO(w, id) EXCEPT !.ufoQueue =
                           Append(@, UfoUpdate("append", <<[id |-> id, position |-> Far]>>, 0))]
                   ELSE w
        eager == AiUpdate(ufos, w1.UFO_REGISTRY, cell)
        w2    == IF w1.ufoQueue = << >>
                   THEN [w1 EXCEPT !.ufoQueue = <<UfoUpdate("set", eager.ufos, 0)>>,
                                   !.UFO_REGISTRY = eager.registry]
                   ELSE [w1 EXCEPT !.ufoQueue = Append(@, UfoUpdate("ai", << >>, 0))]
    IN  [w |-> w2, timeSinceLastSpawn |-> IF spawn THEN 0 ELSE since, spawn |-> spawn,
         since |-> since]

RECURSIVE ApplyUfoQueue(_, _, _, _, _)
\* React renders UFOManager: the queued updaters run in order.
ApplyUfoQueue(list, reg, queue, i, cell) ==
    IF i > Len(queue) THEN [ufos |-> list, registry |-> reg]
    ELSE LET u == queue[i]
         IN  IF u.op = "append" THEN ApplyUfoQueue(list \o u.items, reg, queue, i + 1, cell)
             ELSE IF u.op = "filter"
               THEN ApplyUfoQueue(Without(list, {u.id}), reg, queue, i + 1, cell)
             ELSE IF u.op = "set" THEN ApplyUfoQueue(u.items, reg, queue, i + 1, cell)
             ELSE LET r == AiUpdate(list, reg, cell)
                  IN  ApplyUfoQueue(r.ufos, r.registry, queue, i + 1, cell)

(***************************************************************************)
(* WeaponSystem                                                            *)
(***************************************************************************)
\* Variant of DeferHit: the handler is called inside the collision pass.
DeferHitSynchronous(w, ufoId, hitPosition) == handleUFOHit(w, ufoId, hitPosition)

\* setTimeout(() => window.handleUFOHit(ufoId, hitPosition), 0)
DeferHit(w, ufoId, hitPosition) ==
    [w EXCEPT !.timers = Append(@, TimerEntry("hit", ufoId, hitPosition))]

RECURSIVE CollideUfosNoDedup(_, _, _, _)
\* Variant of CollideUfos: an adversary already hit in this pass is not skipped.
CollideUfosNoDedup(w, projectile, ufoIds, i) ==
    IF i > Len(ufoIds) THEN w
    ELSE LET ufoId == ufoIds[i]
         IN  IF ufoId \notin Ids(w.UFO_REGISTRY)
               THEN CollideUfosNoDedup(w, projectile, ufoIds, i + 1)
             ELSE IF projectile.id \in w.projectilesToRemove
               THEN CollideUfosNoDedup(w, projectile, ufoIds, i + 1)
             ELSE IF InRange(projectile.position, RegistryGet(w.UFO_REGISTRY, ufoId))
               THEN LET w1 == [w EXCEPT !.projectilesToRemove = @ \cup {projectile.id},
                                        !.hitUFOs = @ \cup {ufoId}]
                        w2 == DeferHit(w1, ufoId, RegistryGet(w.UFO_REGISTRY, ufoId))
                    IN  CollideUfosNoDedup(unregisterProjectile(w2, projectile.id),
                                           projectile, ufoIds, i + 1)
             ELSE CollideUfosNoDedup(w, projectile, ufoIds, i + 1)

RECURSIVE CollideUfos(_, _, _, _)
\* ufoRegistry.current.forEach(...) for one projectile.  Map.forEach visits the
\* entries present when it reaches them, in insertion order.
CollideUfos(w, projectile, ufoIds, i) ==
    IF i > Len(ufoIds) THEN w
    ELSE LET ufoId == ufoIds[i]
         IN  IF ufoId \notin Ids(w.UFO_REGISTRY)
               THEN CollideUfos(w, projectile, ufoIds, i + 1)
             ELSE IF projectile.id \in w.projectilesToRemove \/ ufoId \in w.hitUFOs
               THEN CollideUfos(w, projectile, ufoIds, i + 1)
             ELSE IF InRange(projectile.position, RegistryGet(w.UFO_REGISTRY, ufoId))
               THEN LET w1 == [w EXCEPT !.projectilesToRemove = @ \cup {projectile.id},
                                        !.hitUFOs = @ \cup {ufoId}]
                        w2 == DeferHit(w1, ufoId, RegistryGet(w.UFO_REGISTRY, ufoId))
                    IN  CollideUfos(unregisterProjectile(w2, projectile.id),
                                    projectile, ufoIds, i + 1)
             ELSE CollideUfos(w, projectile, ufoIds, i + 1)

RECURSIVE CollideProjectiles(_, _, _)
\* projectiles.forEach(...)
CollideProjectiles(w, list, k) ==
    IF k > Len(list) THEN w
    ELSE CollideProjectiles(
           CollideUfos(w, list[k], [i \in 1..Len(w.UFO_REGISTRY) |-> w.UFO_REGISTRY[i].id], 1),
           list, k + 1)

\* The first useFrame callback of WeaponSystem: the collision pass over the
\* rendered projectiles and the registry.
CollisionFrame(w) ==
    LET w1 == CollideProjectiles([w EXCEPT !.projectilesToRemove = {}, !.hitUFOs = {}],
                                 projectiles, 1)
    IN  IF w1.projectilesToRemove # {}
          THEN [w1 EXCEPT !.projQueue =
                  Append(@, ProjUpdate("filter", << >>, w1.projectilesToRemove, 0))]
          ELSE w1

\* Variant of AdvanceFrame: the advance uses the clamped frame time.
AdvanceFrameClamped(w, d) ==
    [w EXCEPT !.projQueue = Append(@, ProjUpdate("map", << >>, {}, Min(d, MAX_DELTA)))]

\* The second useFrame callback of WeaponSystem: the advance by 70 * delta.
AdvanceFrame(w, d) ==
    [w EXCEPT !.projQueue = Append(@, ProjUpdate("map", << >>, {}, d))]

\* Variant of Expired: a projectile expires already at maxLifetime.
ExpiredAtLimit(d) == {id \in DOMAIN lifetime : Age(lifetime[id], d, LifetimeCap) >= maxLifetime}

\* The useFrame callbacks of the mounted Projectile components: each ages by
\* delta and reports onExpired past maxLifetime, which is removeProjectile(id).
Expired(d) == {id \in DOMAIN lifetime : Age(lifetime[id], d, LifetimeCap) > maxLifetime}

RECURSIVE UnregisterAll(_, _)
UnregisterAll(w, ids) ==
    IF ids = {} THEN w
    ELSE LET id == CHOOSE x \in ids : TRUE
         IN  UnregisterAll(unregisterProjectile(w, id), ids \ {id})

\* removeProjectile(id) for every expired projectile: the filters commute, so
\* they are queued as one.
ProjectileFrames(w, d) ==
    IF Expired(d) = {} THEN w
    ELSE [UnregisterAll(w, Expired(d)) EXCEPT !.projQueue =
             Append(@, ProjUpdate("filter", << >>, Expired(d), 0))]

\* Variant of NewProjectiles: both projectiles leave from the right gun.
NewProjectilesRightOnly(n) ==
    <<[id |-> <<n, "right">>,
       position |-> AddVec(PlanePosition, GunOffset(quaternion, 1)),
       direction |-> Forward(quaternion)],
      [id |-> <<n, "left">>,
       position |-> AddVec(PlanePosition, GunOffset(quaternion, 1)),
       direction |-> Forward(quaternion)]>>

\* The projectiles of one accepted fire.
NewProjectiles(n) ==
    <<[id |-> <<n, "right">>,
       position |-> AddVec(PlanePosition, GunOffset(quaternion, 1)),
       direction |-> Forward(quaternion)],
      [id |-> <<n, "left">>,
       position |-> AddVec(PlanePosition, GunOffset(quaternion, -1)),
       direction |-> Forward(quaternion)]>>

\* Variant of FireAccepted: the boundary of the cooldown is still inside it.
FireAcceptedLate(age) == age > cooldownPeriod

\* now - lastFireTime.current < cooldownPeriod is false
FireAccepted(age) == ~(age < cooldownPeriod)

RECURSIVE ApplyProjQueue(_, _, _)
\* React renders WeaponSystem: the queued updaters run in order.
ApplyProjQueue(list, queue, i) ==
    IF i > Len(queue) THEN list
    ELSE LET u == queue[i]
         IN  IF u.op = "append" THEN ApplyProjQueue(list \o u.items, queue, i + 1)
             ELSE IF u.op = "filter" THEN ApplyProjQueue(Without(list, u.ids), queue, i + 1)
             ELSE ApplyProjQueue([k \in 1..Len(list) |-> Advance(list[k], u.delta)],
                                 queue, i + 1)

(***************************************************************************)
(* Actions of the weapon system and the adversaries                        *)
(***************************************************************************)
\* What a handler other than a frame leaves in combatObs.
Observed(op) == [op |-> op, inRange |-> {}, hits |-> << >>, removed |-> {},
                 spawn |-> FALSE, since |-> 0]

Commit(w) ==
    /\ UFO_REGISTRY' = w.UFO_REGISTRY
    /\ ufoQueue' = w.ufoQueue
    /\ timers' = w.timers
    /\ gameState' = w.gameState
    /\ ufoRegistry' = w.ufoRegistry
    /\ projectileRegistry' = w.projectileRegistry
    /\ projQueue' = w.projQueue

\* Explosion components: each ages by delta and calls onComplete at its
\* lifetime, which is handleExplosionComplete(id).
ExplosionFrames(list, d) ==
    SelectSeq([i \in 1..Len(list) |-> [list[i] EXCEPT !.age = @ + d]],
              LAMBDA e : e.age < EXPLOSION_LIFETIME)

\* The (projectile, registry entry) pairs within hit range of each other.
PairsInRange(list, reg) ==
    {<<list[k].id, reg[i].id>> : <<k, i>> \in
        {x \in (1..Len(list)) \X (1..Len(reg)) :
            InRange(list[x[1]].position, reg[x[2]].position)}}

\* Variant of WeaponFrame: the advance is requested before the collision pass.
WeaponFrameAdvanceFirst(w, d) == CollisionFrame(AdvanceFrame(w, d))

\* The two useFrame callbacks of WeaponSystem, in the order of their useFrame
\* calls: the collision pass, then the advance.
WeaponFrame(w, d) == AdvanceFrame(CollisionFrame(w), d)

\* One frame, d ms after the last: the useFrame callbacks in subscription order
\* (UFOManager, WeaponSystem's two, then the components mounted later).
CombatStep(d, cell) ==
    LET a  == UFOManagerFrame(World, d, cell)
        w1 == CollisionFrame(a.w)
        w2 == WeaponFrame(a.w, d)
        w3 == ProjectileFrames(w2, d)
    IN  /\ a.spawn => spawned < MaxSpawns
        /\ Commit(w3)
        /\ timeSinceLastSpawn' = a.timeSinceLastSpawn
        /\ spawned' = IF a.spawn THEN spawned + 1 ELSE spawned
        /\ lifetime' = [id \in DOMAIN lifetime |-> Age(lifetime[id], d, LifetimeCap)]
        /\ fireAge' = Age(fireAge, d, cooldownPeriod)
        /\ explosions' = ExplosionFrames(explosions, d)
        /\ combatObs' = [op |-> "frame",
                         inRange |-> PairsInRange(projectiles, a.w.UFO_REGISTRY),
                         hits |-> SubSeq(w1.timers, Len(timers) + 1, Len(w1.timers)),
                         removed |-> w1.projectilesToRemove,
                         spawn |-> a.spawn, since |-> a.since]
        /\ UNCHANGED <<projectiles, ufos, shots, fireLog>>

\* The frames React has not rendered yet: the AI updates still in the queue.
Unrendered == Cardinality({i \in 1..Len(ufoQueue) : ufoQueue[i].op \in {"ai", "set"}})

\* A frame that React has kept up with.
CombatFrame(d, cell) ==
    /\ Unrendered < MaxUnrendered
    /\ CombatStep(d, cell)
    /\ UNCHANGED clock

CombatTick == \E d \in CombatDeltas : \E cell \in UfoCells : CombatFrame(d, cell)

\* React renders: UFOManager, then WeaponSystem; Projectile components mount
\* with lifetime 0 and unmount with their projectile.
Render(cell) ==
    LET r == ApplyUfoQueue(ufos, UFO_REGISTRY, ufoQueue, 1, cell)
        p == ApplyProjQueue(projectiles, projQueue, 1)
    IN  /\ ufoQueue # << >> \/ projQueue # << >>
        /\ ufos' = r.ufos
        /\ UFO_REGISTRY' = r.registry
        /\ ufoQueue' = << >>
        /\ projectiles' = p
        /\ projQueue' = << >>
        /\ lifetime' = [id \in Ids(p) |-> IF id \in DOMAIN lifetime THEN lifetime[id] ELSE 0]
        /\ combatObs' = Observed("render")
        /\ UNCHANGED <<fireAge, shots, timeSinceLastSpawn, spawned, explosions, timers,
                       gameState, ufoRegistry, projectileRegistry, clock, fireLog>>

RenderCombat ==
    \E cell \in (IF \E i \in 1..Len(ufoQueue) : ufoQueue[i].op = "ai" THEN UfoCells ELSE {Far}) :
        Render(cell)

\* The first pending timer of a kind.
FirstTimer(kind) == CHOOSE i \in 1..Len(timers) :
                       /\ timers[i].kind = kind
                       /\ \A j \in 1..(i - 1) : timers[j].kind # kind

DropTimer(queue, i) == [k \in 1..(Len(queue) - 1) |-> IF k < i THEN queue[k] ELSE queue[k + 1]]

\* A deferred hit is delivered: window.handleUFOHit(ufoId, hitPosition).
HitTimer ==
    /\ \E i \in 1..Len(timers) : timers[i].kind = "hit"
    /\ LET i == FirstTimer("hit")
           t == timers[i]
       IN  Commit(handleUFOHit([World EXCEPT !.timers = DropTimer(timers, i)],
                               t.id, t.position))
    /\ combatObs' = Observed("hit")
    /\ UNCHANGED <<projectiles, fireAge, shots, lifetime, ufos, timeSinceLastSpawn,
                   spawned, explosions, clock, fireLog>>

\* The 10 ms timer of handleUFOHit adds the explosion.  No handler reads
\* explosions, so the update is applied where it is made.
ExplosionTimer ==
    /\ \E i \in 1..Len(timers) : timers[i].kind = "explosion"
    /\ LET i == FirstTimer("explosion")
           t == timers[i]
       IN  /\ timers' = DropTimer(timers, i)
           /\ explosions' = Append(explosions, [id |-> t.id, position |-> t.position, age |-> 0])
    /\ combatObs' = Observed("explosion")
    /\ UNCHANGED <<projectiles, projQueue, fireAge, shots, lifetime, ufos, ufoQueue,
                   UFO_REGISTRY, timeSinceLastSpawn, spawned, gameState, ufoRegistry,
                   projectileRegistry, clock, fireLog>>

\* fireProjectile(), from the keydown listener (Space).
\* lastFireTime.current = now comes before the test of planeRef.current.
fireProjectile ==
    /\ IF FireAccepted(fireAge)
         THEN LET new == NewProjectiles(shots)
                  w1  == registerProjectile(registerProjectile(World, new[1].id), new[2].id)
              IN  /\ fireAge' = 0
                  /\ IF planeRef
                       THEN /\ shots' = shots + 1
                            /\ projQueue' = Append(projQueue, ProjUpdate("append", new, {}, 0))
                            /\ projectileRegistry' = w1.projectileRegistry
                       ELSE UNCHANGED <<shots, projQueue, projectileRegistry>>
         ELSE UNCHANGED <<fireAge, shots, projQueue, projectileRegistry>>
    /\ combatObs' = Observed("fire")
    /\ UNCHANGED <<projectiles, lifetime, ufos, ufoQueue, UFO_REGISTRY, timeSinceLastSpawn,
                   spawned, explosions, timers, gameState, ufoRegistry>>

\* The fire key, in a behaviour with adversaries.
FireKey ==
    /\ shots < MaxShots
    /\ fireProjectile
    /\ UNCHANGED <<clock, fireLog>>

\* The fire key in the fire-rate scenario: at most one request per instant, logged
\* with whether it queued projectiles.
FireRequest ==
    /\ \A i \in 1..Len(fireLog) : fireLog[i].at # clock
    /\ fireProjectile
    /\ fireLog' = Append(fireLog, [at |-> clock, accepted |-> projQueue' # projQueue])
    /\ UNCHANGED clock

\* Time passes between two key presses (no frame in between).
Elapse ==
    \E step \in ElapseSteps :
        /\ clock < MaxClock
        /\ clock' = clock + step
        /\ fireAge' = Age(fireAge, step, cooldownPeriod)
        /\ combatObs' = Observed("elapse")
        /\ UNCHANGED <<projectiles, projQueue, shots, lifetime, ufos, ufoQueue, UFO_REGISTRY,
                       timeSinceLastSpawn, spawned, explosions, timers, gameState,
                       ufoRegistry, projectileRegistry, fireLog>>

(***************************************************************************)
(* Initial states                                                          *)
(***************************************************************************)
InitCombat ==
    /\ projectiles = << >>
    /\ projQueue = << >>
    /\ fireAge = cooldownPeriod               \* lastFireTime = 0, long ago
    /\ shots = 0
    /\ lifetime = << >>
    /\ ufos = [i \in 1..InitialUfos |-> [id |-> i - 1, position |-> Far]]
    /\ ufoQueue = << >>
    /\ UFO_REGISTRY = << >>
    /\ timeSinceLastSpawn = 0
    /\ spawned = 0
    /\ explosions = << >>
    /\ timers = << >>
    /\ gameState = [score |-> 0, level |-> 1, ufoCount |-> InitialUfos,
                    playerHealth |-> 100, gameStatus |-> "playing"]
    /\ ufoRegistry = 0..(InitialUfos - 1)
    /\ projectileRegistry = {}
    /\ combatObs = Observed("mount")
    /\ clock = 0
    /\ fireLog = << >>

\* Nothing has been asked of the static registry yet.
NoRegistryObs == [op |-> "mount", probe |-> startPosition, result |-> FALSE, retired |-> << >>,
                  id |-> "", entry |-> << >>, present |-> FALSE]

\* The components that call useFrame, with their hooks in hook order and their
\* children in JSX order.  UFO, Projectile and Explosion components mount later,
\* when their collections are rendered.
SceneComponents ==
    [Scene           |-> [hooks |-> << >>,
                          children |-> <<"Ground", "City", "UFOManager", "PlaneController">>],
     Ground          |-> [hooks |-> <<"Ground">>, children |-> << >>],
     City            |-> [hooks |-> <<"City">>, children |-> << >>],
     UFOManager      |-> [hooks |-> <<"UFOManager">>, children |-> << >>],
     PlaneController |-> [hooks |-> <<"PlaneController">>,
                          children |-> <<"Plane", "WeaponSystem", "ControlsUI">>],
     Plane           |-> [hooks |-> <<"Plane">>, children |-> << >>],
     WeaponSystem    |-> [hooks |-> <<"WeaponSystem.collision", "WeaponSystem.advance">>,
                          children |-> << >>],
     ControlsUI      |-> [hooks |-> << >>, children |-> << >>]]

RECURSIVE EffectOrder(_)
RECURSIVE ChildrenEffects(_, _)
ChildrenEffects(children, i) ==
    IF i > Len(children) THEN << >>
    ELSE EffectOrder(children[i]) \o ChildrenEffects(children, i + 1)

\* Variant of EffectOrder: a component's effects run before its children's.
EffectOrderParentFirst(c) ==
    SceneComponents[c].hooks \o ChildrenEffects(SceneComponents[c].children, 1)

\* useFrame subscribes in a layout effect, and React runs the layout effects of
\* a mounting tree children first, siblings in order, the parent last.
EffectOrder(c) ==
    ChildrenEffects(SceneComponents[c].children, 1) \o SceneComponents[c].hooks

\* A subscription: the callback, and the key of the component for the components
\* mounted once per element of a collection.
Subscription(callback, key) == [callback |-> callback, key |-> key]

\* The subscriptions after a render: those of unmounted elements are gone, those
\* of newly mounted elements are pushed at the end, in collection order.
Remount(subs, callback, list) ==
    LET kept == SelectSeq(subs, LAMBDA e : e.callback # callback \/ e.key \in
                                             {<<list[i].id>> : i \in 1..Len(list)})
        old  == {kept[i].key : i \in {k \in 1..Len(kept) : kept[k].callback = callback}}
        new  == SelectSeq(list, LAMBDA e : <<e.id>> \notin old)
    IN  kept \o [i \in 1..Len(new) |-> Subscription(callback, <<new[i].id>>)]

\* cameraRef is placed behind and above the aircraft when PlaneController mounts;
\* the camera is the default camera of the Canvas, at (0, 0, 5) looking at the origin.
CAMERA_OFFSET == <<0, 8, 25>>

LOOK_OFFSET == <<0, 2, 0>>

RIG_DAMPING == 100                   \* lerp(desiredPosition, 0.1), in thousandths

CAMERA_DAMPING == 30                 \* 0.03, in thousandths

\* The camera the Canvas makes: at (0, 0, 5), looking at the origin.
DefaultCamera == [position |-> <<0, 0, 5>>, target |-> <<0, 0, 0>>]

\* No AI update has run yet.
NoAiObs == [op |-> "mount", delta |-> 0, track |-> << >>]

\* No key is held.
NoKeys == [q |-> FALSE, e |-> FALSE, c |-> FALSE]

\* PlaneController as it mounts under a Canvas with the given camera.
Mounted(cam) ==
    [rotationState |-> SpawnRotation, quaternion |-> IdentityQuaternion,
     position |-> startPosition, speed |-> SPAWN_SPEED, isColliding |-> FALSE,
     collisionMessage |-> "", planeQueue |-> NoQueue,
     collisionAge |-> COLLISION_COOLDOWN,
     cameraRef |-> [position |-> AddVec(startPosition, CAMERA_OFFSET), yaw |-> 0],
     camera |-> cam, freeCamMode |-> FALSE]

\* Nothing has run in the recovery scenario yet.
NoRecoveryObs == [op |-> "mount", resetInRecovery |-> FALSE, afterReset |-> FALSE,
                  delta |-> 0, pitchAxis |-> 0, speedAxis |-> 0, travelled |-> 0]

\* Nothing has run in the whole-loop scenario yet.
NoLoopObs == [op |-> "mount", delta |-> 0, log |-> << >>]

InitScene ==
    /\ registryObs = NoRegistryObs
    /\ subscribers =
          Remount([i \in 1..Len(EffectOrder("Scene")) |->
                     Subscription(EffectOrder("Scene")[i], << >>)],
                  "UFO", [i \in 1..InitialUfos |-> [id |-> i - 1]])
    /\ cameraRef = [position |-> AddVec(startPosition, CAMERA_OFFSET), yaw |-> 0]
    /\ camera = DefaultCamera
    /\ freeCamMode = FALSE
    /\ ticks = 0
    /\ loopObs = NoLoopObs
    /\ recoveryObs = NoRecoveryObs
    /\ keysPressed = NoKeys
    /\ planeRef = TRUE                         \* the group is committed before the effects run
    /\ aiObs = NoAiObs

(***************************************************************************)
(* The flight controller's specification: one control axis per behaviour   *)
(***************************************************************************)
InitFlight ==
    /\ InitPlane
    /\ InitCombat
    /\ InitScene
    /\ twin = Mounted(DefaultCamera)
    /\ driven \in {"pitch", "roll", "speed"}

NextFlight ==
    \/ Frame /\ UNCHANGED <<combatVars, sceneVars, caseVars>>
    \/ RenderPlane /\ UNCHANGED <<combatVars, sceneVars, caseVars>>
    \/ resetPlane /\ UNCHANGED <<combatVars, sceneVars, caseVars>>
    \/ WorldGenerator /\ UNCHANGED <<combatVars, sceneVars, caseVars>>

SpecFlight == InitFlight /\ [][NextFlight]_vars

(***************************************************************************)
(* The specification of weapon system, adversaries and game state: the     *)
(* aircraft holds its spawn pose                                           *)
(***************************************************************************)
InitWeapons ==
    /\ InitPlane
    /\ InitCombat
    /\ InitScene
    /\ twin = Mounted(DefaultCamera)
    /\ driven = "none"

NextCombat ==
    \/ CombatTick /\ UNCHANGED <<flightVars, sceneVars, caseVars>>
    \/ RenderCombat /\ UNCHANGED <<flightVars, sceneVars, caseVars>>
    \/ HitTimer /\ UNCHANGED <<flightVars, sceneVars, caseVars>>
    \/ ExplosionTimer /\ UNCHANGED <<flightVars, sceneVars, caseVars>>
    \/ FireKey /\ UNCHANGED <<flightVars, sceneVars, caseVars>>

SpecCombat == InitWeapons /\ [][NextCombat]_vars

(***************************************************************************)
(* The fire-rate scenario: key presses on a 50 ms grid                     *)
(***************************************************************************)
NextFire ==
    \/ Elapse /\ UNCHANGED <<flightVars, sceneVars, caseVars>>
    \/ FireRequest /\ UNCHANGED <<flightVars, sceneVars, caseVars>>
    \/ RenderCombat /\ UNCHANGED <<flightVars, sceneVars, caseVars>>

SpecFire == InitWeapons /\ [][NextFire]_vars

(***************************************************************************)
(* The fire-rate scenario while the aircraft's group leaves the tree: React *)
(* clears planeRef.current when it takes the group off the tree, and the    *)
(* cleanup that removes WeaponSystem's keydown listener runs after that     *)
(***************************************************************************)
DetachRef ==
    /\ planeRef
    /\ planeRef' = FALSE
    /\ UNCHANGED <<recoveryObs, keysPressed, twin, aiObs>>

NextDetach ==
    \/ Elapse /\ UNCHANGED <<flightVars, sceneVars, caseVars>>
    \/ FireRequest /\ UNCHANGED <<flightVars, sceneVars, caseVars>>
    \/ RenderCombat /\ UNCHANGED <<flightVars, sceneVars, caseVars>>
    \/ DetachRef /\ UNCHANGED <<flightVars, combatVars, sceneVars>>

SpecDetach == InitWeapons /\ [][NextDetach]_vars

(***************************************************************************)
(* The volley scenario: short frames, an adversary close to the guns, and  *)
(* React up to two frames behind.  A frame callback closes over the state  *)
(* of the last committed render, so a frame that runs before the render    *)
(* works on the projectiles and adversaries of the frame before it.        *)
(***************************************************************************)
MaxVolleyTicks == 3                  \* frames per behaviour

MaxStale == 2                        \* frames React may fall behind in this scenario

\* Frame times of this scenario (ms): a short frame, and a stall longer than the
\* spawn cooldown.
VolleyDeltas == {100, 2100}

\* The cell a tenth of a second of projectile flight ahead of the guns.
Close == <<0, 300, -570>>

VolleyCells == {Far, Close}

VolleyTick ==
    \E d \in VolleyDeltas : \E cell \in VolleyCells :
        /\ ticks < MaxVolleyTicks
        /\ Unrendered < MaxStale
        /\ CombatStep(d, cell)
        /\ ticks' = ticks + 1
        /\ UNCHANGED clock
        /\ UNCHANGED <<registryObs, subscribers, cameraRef, camera, freeCamMode, loopObs>>

VolleyRender ==
    \E cell \in (IF \E i \in 1..Len(ufoQueue) : ufoQueue[i].op = "ai"
                   THEN VolleyCells ELSE {Far}) : Render(cell)

NextVolley ==
    \/ VolleyTick /\ UNCHANGED <<flightVars, caseVars>>
    \/ VolleyRender /\ UNCHANGED <<flightVars, sceneVars, caseVars>>
    \/ HitTimer /\ UNCHANGED <<flightVars, sceneVars, caseVars>>
    \/ ExplosionTimer /\ UNCHANGED <<flightVars, sceneVars, caseVars>>
    \/ FireKey /\ UNCHANGED <<flightVars, sceneVars, caseVars>>

SpecVolley == InitWeapons /\ [][NextVolley]_vars

(***************************************************************************)
(* The static registry on its own: the world generator registers and       *)
(* unregisters obstacles, and candidate positions are queried              *)
(***************************************************************************)
\* The ids and obstacles the world generator uses here: the tower, and a block
\* beside its top (sizes are even, so that size / 2 is exact).
RegistryIds == {"b1", "b2"}

RegistryCatalogue ==
    BuildingCatalogue \cup { [position |-> <<9, 42, -50>>, size |-> <<4, 4, 4>>] }

\* Candidate positions around the top edge of the tower and around the block.
Probes == {0, 6, 7, 8} \X {20, 41, 42, 43} \X {-50, -44}

\* Building mounts: registerBuilding(position, size, id).
RegistryStreamIn ==
    \E id \in RegistryIds : \E b \in RegistryCatalogue :
        /\ registerBuilding(id, b)
        /\ registryObs' = [registryObs EXCEPT !.op = "register",
                              !.retired = [k \in DOMAIN @ \ {id} |-> @[k]],
                              !.id = id, !.entry = b,
                              !.present = id \in DOMAIN BUILDING_REGISTRY]
        /\ UNCHANGED <<subscribers, cameraRef, camera, freeCamMode, ticks, loopObs>>

\* Building unmounts: unregisterBuilding(id).
RegistryStreamOut ==
    \E id \in RegistryIds :
        /\ unregisterBuilding(id)
        /\ registryObs' = [registryObs EXCEPT !.op = "unregister",
                              !.retired = IF id \in DOMAIN BUILDING_REGISTRY
                                            THEN [k \in DOMAIN @ \cup {id} |->
                                                    IF k = id THEN BUILDING_REGISTRY[id] ELSE @[k]]
                                            ELSE @,
                              !.id = id, !.entry = << >>,
                              !.present = id \in DOMAIN BUILDING_REGISTRY]
        /\ UNCHANGED <<subscribers, cameraRef, camera, freeCamMode, ticks, loopObs>>

\* checkBuildingCollisions(newPosition), for a candidate position.
StaticQuery ==
    \E probe \in Probes :
        /\ registryObs' = [registryObs EXCEPT !.op = "query", !.probe = probe,
                              !.result = checkBuildingCollisions(BUILDING_REGISTRY, probe)]
        /\ UNCHANGED <<subscribers, cameraRef, camera, freeCamMode, ticks, loopObs>>
        /\ UNCHANGED flightVars

NextRegistry ==
    \/ RegistryStreamIn /\ UNCHANGED <<combatVars, caseVars>>
    \/ RegistryStreamOut /\ UNCHANGED <<combatVars, caseVars>>
    \/ StaticQuery /\ UNCHANGED <<combatVars, caseVars>>

SpecRegistry == InitWeapons /\ [][NextRegistry]_vars

(***************************************************************************)
(* The whole loop: every frame calls the subscribed useFrame callbacks in  *)
(* subscription order.  The aircraft is rolled (and so turned), the guns   *)
(* are fired, the adversaries keep their distance.                         *)
(***************************************************************************)
MaxTicks == 4                        \* frames per behaviour

\* Frame times of this scenario (ms); 500 is an oversized delta.
LoopDeltas == {100, 500}

\* The roll key held in this scenario, or none.
LoopRollAxis == {0, 1}

\* Where the adversaries are steered to in this scenario: onto the line of fire.
LoopCells == {Ahead}

\* The camera part of PlaneController's useFrame callback: skipped in free
\* camera mode; otherwise the rig takes the aircraft's yaw and moves a tenth of
\* the way to its place behind and above the aircraft, the camera moves 3% of the
\* way to the rig and looks at a point above the aircraft.
ChaseCamera(rig, cam, freeCam, planePosition, planeQuaternion) ==
    IF freeCam THEN [cameraRef |-> rig, camera |-> cam]
    ELSE LET yaw == SetFromQuaternion(planeQuaternion).yaw
             localOffset ==
                 <<TDiv(CAMERA_OFFSET[3] * SinMilli(yaw), 1000), CAMERA_OFFSET[2],
                   TDiv(CAMERA_OFFSET[3] * CosMilli(yaw), 1000)>>
             desiredPosition == AddVec(planePosition, localOffset)
             rigPosition ==
                 [i \in 1..3 |-> Lerp(rig.position[i], desiredPosition[i], RIG_DAMPING)]
         IN  [cameraRef |-> [position |-> rigPosition, yaw |-> yaw],
              camera |-> [position |-> [i \in 1..3 |->
                                          Lerp(cam.position[i], rigPosition[i], CAMERA_DAMPING)],
                          target |-> AddVec(planePosition, LOOK_OFFSET)]]

\* The useFrame callback of one Projectile component: it ages by delta and calls
\* onExpired past maxLifetime, which is removeProjectile(id).
ProjectileFrame(w, id, d) ==
    IF Age(lifetime[id], d, LifetimeCap) > maxLifetime
      THEN [unregisterProjectile(w, id) EXCEPT !.projQueue =
              Append(@, ProjUpdate("filter", << >>, {id}, 0))]
      ELSE w

RECURSIVE RunSubscribers(_, _, _, _)
\* The loop of a frame: for each subscription in order, callback(state, delta).
\* PlaneController's callback works on the aircraft and the camera, which no other
\* callback here reads or writes; Ground, City, Plane and UFO touch nothing that
\* is modelled.
RunSubscribers(acc, subs, i, d) ==
    IF i > Len(subs) THEN acc
    ELSE LET callback == subs[i].callback
             next ==
                 IF callback = "UFOManager"
                   THEN LET a == UFOManagerFrame(acc.w, d, acc.cell)
                        IN  [acc EXCEPT !.w = a.w,
                                        !.timeSinceLastSpawn = a.timeSinceLastSpawn,
                                        !.spawn = a.spawn, !.since = a.since]
                 ELSE IF callback = "WeaponSystem.collision"
                   THEN [acc EXCEPT !.w = CollisionFrame(@)]
                 ELSE IF callback = "WeaponSystem.advance"
                   THEN [acc EXCEPT !.w = AdvanceFrame(@, d)]
                 ELSE IF callback = "Projectile"
                   THEN [acc EXCEPT !.w = ProjectileFrame(@, subs[i].key[1], d)]
                 ELSE acc
         IN  RunSubscribers([next EXCEPT !.log = Append(@, callback)], subs, i + 1, d)

\* One frame of the whole loop, d ms after the last, with the roll key held or
\* not, and the cell the adversaries are steered to.
LoopFrame(d, rollAxis, cell) ==
    LET acc == RunSubscribers([w |-> World, timeSinceLastSpawn |-> timeSinceLastSpawn,
                               spawn |-> FALSE, since |-> 0, log |-> << >>,
                               cell |-> cell],
                              subscribers, 1, d)
        cam == ChaseCamera(cameraRef, camera, freeCamMode, position', quaternion')
    IN  /\ ticks < MaxTicks
        /\ Unrendered < MaxUnrendered
        /\ acc.spawn => spawned < MaxSpawns
        /\ FlightFrame(d, 0, rollAxis, 0)
        /\ spawned' = IF acc.spawn THEN spawned + 1 ELSE spawned
        /\ cameraRef' = cam.cameraRef
        /\ camera' = cam.camera
        /\ Commit(acc.w)
        /\ timeSinceLastSpawn' = acc.timeSinceLastSpawn
        /\ lifetime' = [id \in DOMAIN lifetime |-> Age(lifetime[id], d, LifetimeCap)]
        /\ fireAge' = Age(fireAge, d, cooldownPeriod)
        /\ explosions' = ExplosionFrames(explosions, d)
        /\ combatObs' = [Observed("frame") EXCEPT !.spawn = acc.spawn, !.since = acc.since]
        /\ ticks' = ticks + 1
        /\ loopObs' = [op |-> "frame", delta |-> d, log |-> acc.log]
        /\ UNCHANGED <<projectiles, ufos, shots, clock, fireLog,
                       registryObs, subscribers, freeCamMode>>

LoopTick ==
    \E d \in LoopDeltas : \E rollAxis \in LoopRollAxis : \E cell \in LoopCells :
        LoopFrame(d, rollAxis, cell)

\* React renders everything that is queued: PlaneController, UFOManager,
\* WeaponSystem; the components of new projectiles mount and subscribe.
LoopRender ==
    /\ \E cell \in (IF \E i \in 1..Len(ufoQueue) : ufoQueue[i].op = "ai"
                      THEN LoopCells ELSE {Far}) : Render(cell)
    /\ IF planeQueue # NoQueue THEN RenderPlane ELSE UNCHANGED flightVars
    /\ subscribers' = Remount(subscribers, "Projectile", projectiles')
    /\ loopObs' = [op |-> "render", delta |-> 0, log |-> << >>]
    /\ UNCHANGED <<registryObs, cameraRef, camera, freeCamMode, ticks>>

\* The fire key: accepted once per behaviour, and pressed again inside the cooldown.
LoopFire ==
    /\ shots < MaxShots \/ ~FireAccepted(fireAge)
    /\ fireProjectile
    /\ loopObs' = [op |-> "fire", delta |-> 0, log |-> << >>]
    /\ UNCHANGED <<clock, fireLog, registryObs, subscribers, cameraRef, camera,
                   freeCamMode, ticks>>
    /\ UNCHANGED flightVars

\* The timers of a hit: its delivery, and the explosion 10 ms later.
LoopTimer ==
    /\ HitTimer \/ ExplosionTimer
    /\ loopObs' = [op |-> "timer", delta |-> 0, log |-> << >>]
    /\ UNCHANGED <<registryObs, subscribers, cameraRef, camera, freeCamMode, ticks>>
    /\ UNCHANGED flightVars

\* The reset key.
LoopReset ==
    /\ resetPlane
    /\ loopObs' = [op |-> "reset", delta |-> 0, log |-> << >>]
    /\ UNCHANGED <<registryObs, subscribers, cameraRef, camera, freeCamMode, ticks>>
    /\ UNCHANGED combatVars

\* The world generator streams a block beside the flight path in or out.
LoopWorld ==
    /\ \E id \in BuildingIds :
          \/ \E b \in RegistryCatalogue \ BuildingCatalogue : registerBuilding(id, b)
          \/ unregisterBuilding(id)
    /\ BUILDING_REGISTRY' # BUILDING_REGISTRY
    /\ loopObs' = [op |-> "world", delta |-> 0, log |-> << >>]
    /\ UNCHANGED <<registryObs, subscribers, cameraRef, camera, freeCamMode, ticks>>
    /\ UNCHANGED combatVars

InitLoop ==
    /\ InitPlane
    /\ InitCombat
    /\ InitScene
    /\ twin = Mounted(DefaultCamera)
    /\ driven = "roll"

NextLoop ==
    \/ LoopTick /\ UNCHANGED caseVars
    \/ LoopRender /\ UNCHANGED caseVars
    \/ LoopFire /\ UNCHANGED caseVars
    \/ LoopTimer /\ UNCHANGED caseVars
    \/ LoopReset /\ UNCHANGED caseVars

SpecLoop == InitLoop /\ [][NextLoop]_vars

(***************************************************************************)
(* The whole loop with the world generator at work: who writes the         *)
(* registries                                                              *)
(***************************************************************************)
MaxWriterTicks == 3                  \* frames per behaviour

NextWriters ==
    \/ LoopTick /\ ticks < MaxWriterTicks /\ UNCHANGED caseVars
    \/ LoopRender /\ UNCHANGED caseVars
    \/ LoopFire /\ UNCHANGED caseVars
    \/ LoopTimer /\ UNCHANGED caseVars
    \/ LoopWorld /\ UNCHANGED caseVars

SpecWriters == InitLoop /\ [][NextWriters]_vars

(***************************************************************************)
(* The recovery scenario: the aircraft flies into the ground or into an    *)
(* obstacle, and the reset key is pressed                                  *)
(***************************************************************************)
\* The control driven in this scenario: the throttle, with the world generator
\* streaming the tower in and out around the aircraft.
RecoveryDriven == {"speed"}

\* One frame; the inputs and the way made, newSpeed * clampedDelta (in
\* thousandths of a unit), are recorded.
RecoveryFrame ==
    \E d \in FlightDeltas :
      \E pitchAxis \in (IF driven = "pitch" THEN Axis ELSE {0}) :
        \E speedAxis \in (IF driven = "speed" THEN Axis ELSE {0}) :
          /\ FlightFrame(d, pitchAxis, 0, speedAxis)
          /\ recoveryObs' =
                [op |-> "frame", resetInRecovery |-> FALSE,
                 afterReset |-> recoveryObs.resetInRecovery,
                 delta |-> d, pitchAxis |-> pitchAxis, speedAxis |-> speedAxis,
                 travelled |->
                    IF isColliding THEN 0
                    ELSE NewSpeed(speed, TDiv(speedAxis * ACCELERATION * Min(d, MAX_DELTA), 1000))
                           * Min(d, MAX_DELTA)]

\* React commits the queued state of PlaneController.
RecoveryRender ==
    /\ RenderPlane
    /\ recoveryObs' = [recoveryObs EXCEPT !.op = "render"]

\* The reset key, at a tick boundary.
RecoveryReset ==
    /\ resetPlane
    /\ recoveryObs' = [recoveryObs EXCEPT !.op = "reset",
                          !.resetInRecovery = isColliding \/ @, !.afterReset = FALSE]

\* The world generator streams an obstacle in or out.
RecoveryWorld ==
    /\ WorldGenerator
    /\ recoveryObs' = [recoveryObs EXCEPT !.op = "world"]

InitRecovery ==
    /\ InitPlane
    /\ InitCombat
    /\ InitScene
    /\ twin = Mounted(DefaultCamera)
    /\ driven \in RecoveryDriven

NextRecovery ==
    \/ RecoveryFrame /\ UNCHANGED <<combatVars, sceneVars, keysPressed, twin, planeRef, aiObs>>
    \/ RecoveryRender /\ UNCHANGED <<combatVars, sceneVars, keysPressed, twin, planeRef, aiObs>>
    \/ RecoveryReset /\ UNCHANGED <<combatVars, sceneVars, keysPressed, twin, planeRef, aiObs>>
    \/ RecoveryWorld /\ UNCHANGED <<combatVars, sceneVars, keysPressed, twin, planeRef, aiObs>>

SpecRecovery == InitRecovery /\ [][NextRecovery]_vars

(***************************************************************************)
(* The camera scenario: the throttle keys, the camera key and the reset    *)
(* key are pressed; beside the run under the Canvas's own camera a second  *)
(* run of PlaneController is followed, mounted under a camera that stands  *)
(* elsewhere and that never gets the camera key.  Both get the same        *)
(* throttle and reset keys, frame times and obstacles.                     *)
(***************************************************************************)
MaxCameraTicks == 3                  \* frames per behaviour

\* Where the second run's camera stands when PlaneController mounts.
TwinCameras ==
    { [position |-> <<0, 40, 20>>, target |-> <<0, 0, 0>>],
      [position |-> <<30, 2, -50>>, target |-> <<0, 30, -50>>] }

\* The keys of this scenario.
CameraKeys == {"q", "e", "c", "r"}

\* inputStateRef.current.speed from the held keys.
SpeedAxis(keys) == (IF keys.q THEN 1 ELSE 0) - (IF keys.e THEN 1 ELSE 0)

\* Variant of FlightOrigin: the candidate position is taken from the camera.
FlightOriginAtCamera(s) == s.camera.position

\* planeRef.current.position.clone(), the position a frame starts from.
FlightOrigin(s) == s.position

\* The flight part of the useFrame callback on a run s of PlaneController (its
\* refs, committed state and queued state, its camera and rig), as FlightFrame is
\* on the run under the Canvas's own camera.
FlightStep(s, reg, d, pitchAxis, rollAxis, speedAxis) ==
    LET clampedDelta == Min(d, MAX_DELTA)
        age          == Age(s.collisionAge, d, COLLISION_COOLDOWN)
        euler        == SetFromQuaternion(s.quaternion)
        rs0          == [pitch |-> euler.pitch, yaw |-> normalizeAngle(euler.yaw),
                         roll |-> euler.roll]
        pitchInput   == TDiv(pitchAxis * PITCH_SENSITIVITY * clampedDelta, 1000)
        rollInput    == TDiv(rollAxis * ROLL_SENSITIVITY * clampedDelta, 1000)
        speedInput   == TDiv(speedAxis * ACCELERATION * clampedDelta, 1000)
        newSpeed     == NewSpeed(s.speed, speedInput)
        pitch1       == NewPitch(rs0.pitch, pitchInput, clampedDelta)
        roll1        == NewRoll(rs0.roll, rollInput, clampedDelta)
        yaw1         == NewYaw(rs0.yaw, roll1, rollInput, clampedDelta)
        newPosition  == AddVec(FlightOrigin(s), Movement(pitch1, newSpeed, clampedDelta))
        ground       == checkGroundCollision(newPosition)
        building     == ~ground /\ checkBuildingCollisions(reg, newPosition)
        q1           == IF ~s.planeQueue.hasSpeed /\ newSpeed = s.speed THEN s.planeQueue
                        ELSE [s.planeQueue EXCEPT !.hasSpeed = TRUE, !.speed = newSpeed]
        q2           == IF (ground \/ building) /\ ~(age < COLLISION_COOLDOWN)
                          THEN [q1 EXCEPT !.hasColliding = TRUE, !.isColliding = TRUE,
                                          !.collisionMessage =
                                              IF ground THEN "ground" ELSE "building",
                                          !.hasSpeed = TRUE,
                                          !.speed = CollisionSpeed(s.speed)]
                          ELSE q1
    IN  IF s.isColliding
          THEN [s EXCEPT !.rotationState = rs0, !.collisionAge = age]
          ELSE [s EXCEPT !.rotationState = [pitch |-> pitch1, yaw |-> yaw1, roll |-> roll1],
                         !.quaternion = SetFromEuler(pitch1, yaw1, roll1),
                         !.planeQueue = q2,
                         !.collisionAge = IF (ground \/ building) /\ age >= COLLISION_COOLDOWN
                                            THEN 0 ELSE age,
                         !.position = newPosition]

\* The whole useFrame callback on a run: flight, then the camera rig.
TwinFrame(s, reg, d, keys) ==
    LET f   == FlightStep(s, reg, d, 0, 0, SpeedAxis(keys))
        cam == ChaseCamera(f.cameraRef, f.camera, f.freeCamMode, f.position, f.quaternion)
    IN  [f EXCEPT !.cameraRef = cam.cameraRef, !.camera = cam.camera]

\* React commits the queued state of a run.
TwinRender(s) ==
    IF s.planeQueue = NoQueue THEN s
    ELSE [s EXCEPT
            !.speed = IF s.planeQueue.hasSpeed THEN s.planeQueue.speed ELSE @,
            !.isColliding = IF s.planeQueue.hasColliding THEN s.planeQueue.isColliding ELSE @,
            !.collisionMessage = IF s.planeQueue.hasColliding
                                   THEN s.planeQueue.collisionMessage ELSE @,
            !.planeQueue = NoQueue]

\* resetPlane on a run.
TwinReset(s) ==
    [s EXCEPT !.position = startPosition, !.quaternion = IdentityQuaternion,
              !.rotationState = SpawnRotation, !.speed = SPAWN_SPEED,
              !.isColliding = FALSE, !.collisionMessage = "", !.planeQueue = NoQueue]

\* handleKeyDown(e): the key is marked as held; R resets; C toggles the camera
\* mode if the key is not marked as held, which is looked up after the marking.
\* The camera key goes to the run under the Canvas's camera only.
handleKeyDown(key) ==
    LET marked == IF key \in DOMAIN keysPressed
                    THEN [keysPressed EXCEPT ![key] = TRUE] ELSE keysPressed
    IN  /\ keysPressed' = marked
        /\ IF key = "r"
             THEN resetPlane /\ twin' = TwinReset(twin)
             ELSE UNCHANGED <<flightVars, twin>>
        /\ freeCamMode' = IF key = "c" /\ ~marked.c THEN ~freeCamMode ELSE freeCamMode
        /\ UNCHANGED <<registryObs, subscribers, cameraRef, camera, ticks, loopObs,
                       recoveryObs, planeRef, aiObs>>

\* handleKeyUp(e)
handleKeyUp(key) ==
    /\ key \in DOMAIN keysPressed
    /\ keysPressed[key]
    /\ keysPressed' = [keysPressed EXCEPT ![key] = FALSE]
    /\ UNCHANGED <<flightVars, sceneVars, recoveryObs, twin, planeRef, aiObs>>

CameraKeyDown == \E key \in CameraKeys : handleKeyDown(key)

CameraKeyUp == \E key \in CameraKeys : handleKeyUp(key)

\* One frame of both runs.
CameraFrame ==
    \E d \in FlightDeltas :
        LET cam == ChaseCamera(cameraRef, camera, freeCamMode, position', quaternion')
        IN  /\ ticks < MaxCameraTicks
            /\ FlightFrame(d, 0, 0, SpeedAxis(keysPressed))
            /\ cameraRef' = cam.cameraRef
            /\ camera' = cam.camera
            /\ twin' = TwinFrame(twin, BUILDING_REGISTRY, d, keysPressed)
            /\ ticks' = ticks + 1
            /\ UNCHANGED <<registryObs, subscribers, freeCamMode, loopObs, recoveryObs,
                           keysPressed, planeRef, aiObs>>

\* React renders both runs.
CameraRender ==
    /\ planeQueue # NoQueue \/ twin.planeQueue # NoQueue
    /\ IF planeQueue # NoQueue THEN RenderPlane ELSE UNCHANGED flightVars
    /\ twin' = TwinRender(twin)
    /\ UNCHANGED <<sceneVars, recoveryObs, keysPressed, planeRef, aiObs>>

\* The world generator streams the tower in or out.
CameraWorld ==
    /\ WorldGenerator
    /\ UNCHANGED <<sceneVars, caseVars>>

InitCamera ==
    /\ InitPlane
    /\ InitCombat
    /\ InitScene
    /\ twin \in {Mounted(cam) : cam \in TwinCameras}
    /\ driven = "speed"

NextCamera ==
    \/ CameraKeyDown /\ UNCHANGED combatVars
    \/ CameraKeyUp /\ UNCHANGED combatVars
    \/ CameraFrame /\ UNCHANGED combatVars
    \/ CameraRender /\ UNCHANGED combatVars
    \/ CameraWorld /\ UNCHANGED combatVars

SpecCamera == InitCamera /\ [][NextCamera]_vars

(***************************************************************************)
(* The adversaries' flight: UFOManager's AI update with positions in       *)
(* tenths of a unit, directions in thousandths and times in ms.  The       *)
(* aircraft holds its spawn pose and the camera stands where the Canvas    *)
(* made it.                                                                *)
(***************************************************************************)
FOLLOW_SPEED == 80                   \* 0.08 per frame at 60 fps, in thousandths

RANDOM_FACTOR == 400                 \* 0.4, in thousandths

MINIMUM_UFO_DISTANCE == 80

UPDATE_FREQUENCY == 300

ALTITUDE_VARIATION == 100

MIN_ALTITUDE == 300

SPAWN_DISTANCE == 2000

MaxAiTicks == 3                      \* frames per behaviour

\* Frame times explored for the AI update (ms): a slow frame and a frame after
\* the page was in the background.
AiDeltas == {200, 2000}

\* The values Math.random() gives the random direction, normalized.
RandomDirections == {<<0, 0, 1000>>, <<0, 0, -1000>>}

\* The values of MIN_ALTITUDE + sin(Date.now() * 0.001 + 'u') * ALTITUDE_VARIATION * 0.5
\* after the floor at MIN_ALTITUDE; every adversary's id starts with 'u'.
TargetAltitudes == {MIN_ALTITUDE, MIN_ALTITUDE + ALTITUDE_VARIATION \div 2}

\* The altitudes MIN_ALTITUDE + Math.random() * ALTITUDE_VARIATION explored.
SpawnAltitudes == {MIN_ALTITUDE, MIN_ALTITUDE + ALTITUDE_VARIATION \div 2}

\* Where the adversaries of the mount effect stand: 100 to 200 units from the
\* origin, at any angle.
AiStarts ==
    { <<<<1000, 300, 0>>, <<1000, 300, 80>>>>,
      <<<<1000, 300, 0>>, <<1000, 350, 60>>>> }

\* One fleet of the mount effect, for its size.
AiStartsFleet == CHOOSE starts \in AiStarts : TRUE

SubVec(a, b) == <<a[1] - b[1], a[2] - b[2], a[3] - b[3]>>

RECURSIVE SqrtBetween(_, _, _)
\* the largest r in lo..hi with r * r <= n
SqrtBetween(n, lo, hi) ==
    IF lo >= hi THEN lo
    ELSE LET mid == (lo + hi + 1) \div 2
         IN  IF mid * mid <= n THEN SqrtBetween(n, mid, hi) ELSE SqrtBetween(n, lo, mid - 1)

\* v.length()
Length(v) ==
    SqrtBetween(v[1] * v[1] + v[2] * v[2] + v[3] * v[3], 0, Abs(v[1]) + Abs(v[2]) + Abs(v[3]))

\* v.normalize(), in thousandths: divideScalar(length || 1)
Normalize(v) ==
    LET len == Length(v)
    IN  IF len = 0 THEN v
        ELSE <<TDiv(v[1] * 1000, len), TDiv(v[2] * 1000, len), TDiv(v[3] * 1000, len)>>

\* v.multiplyScalar(f) for f in thousandths
MultiplyScalar(v, f) == <<TDiv(v[1] * f, 1000), TDiv(v[2] * f, 1000), TDiv(v[3] * f, 1000)>>

\* The player position the frame callback tracks: the camera's x and z.
PlayerPosition(cam) == <<cam.position[1] * 10, 0, cam.position[3] * 10>>

\* The AI entry of the setUfos queue: the updater closes over delta and
\* newPlayerPosition.
AiEntry(d, player) == [op |-> "ai", items |-> << >>, id |-> 0, delta |-> d, player |-> player]

RECURSIVE Repel(_, _, _, _, _)
\* The loop over the other adversaries of prevUfos: each one closer than
\* MINIMUM_UFO_DISTANCE to newPosition pushes it away by 0.2 * (60 * delta).
Repel(acc, ufo, prevUfos, j, d) ==
    IF j > Len(prevUfos) THEN acc
    ELSE LET otherUfo  == prevUfos[j]
             close     == /\ otherUfo.id # ufo.id
                          /\ DistSq(acc.position, otherUfo.position)
                               < MINIMUM_UFO_DISTANCE * MINIMUM_UFO_DISTANCE
             repulsion == MultiplyScalar(Normalize(SubVec(acc.position, otherUfo.position)),
                                         TDiv(12 * d, 100))
         IN  Repel(IF close
                     THEN [position |-> AddVec(acc.position, repulsion), tooClose |-> TRUE]
                     ELSE acc,
                   ufo, prevUfos, j + 1, d)

\* The body of prevUfos.map in the AI updater.  randomDir.multiplyScalar scales
\* the vector in place, so the direction that is stored is the scaled one.
AiStep(ufo, prevUfos, d, player, targetY, sample) ==
    LET timeSinceLastUpdate == ufo.lastUpdateTime + d
        resample      == timeSinceLastUpdate > UPDATE_FREQUENCY
        randomDir     == IF resample THEN sample ELSE ufo.randomDirection
        dirToPlayer   == Normalize(<<player[1] - ufo.position[1], 0,
                                     player[3] - ufo.position[3]>>)
        scaledRandom  == MultiplyScalar(randomDir, RANDOM_FACTOR)
        moveDirection == Normalize(AddVec(MultiplyScalar(dirToPlayer, 1000 - RANDOM_FACTOR),
                                          scaledRandom))
        rate          == TDiv(FOLLOW_SPEED * 60 * d, 1000)
        moved         == <<ufo.position[1] + TDiv(moveDirection[1] * rate, 100000),
                           ufo.position[2] + TDiv((targetY - ufo.position[2]) * 6 * d, 10000),
                           ufo.position[3] + TDiv(moveDirection[3] * rate, 100000)>>
        repelled      == Repel([position |-> moved, tooClose |-> FALSE], ufo, prevUfos, 1, d)
    IN  [ufo |-> [id |-> ufo.id, position |-> repelled.position,
                  lastUpdateTime |-> IF repelled.tooClose THEN ufo.lastUpdateTime
                                     ELSE IF resample THEN 0 ELSE timeSinceLastUpdate,
                  randomDirection |-> scaledRandom],
         resampled |-> resample, dirToPlayer |-> dirToPlayer, tooClose |-> repelled.tooClose]

\* What is remembered of an adversary's AI updates: the tick time since its last
\* resample (or since it was made), and how many resamples it has had.
TrackOf(track, i) ==
    IF i <= Len(track) THEN track[i]
    ELSE [resampled |-> FALSE, gap |-> 0, since |-> 0, resamples |-> 0,
          dirToPlayer |-> <<0, 0, 0>>, tooClose |-> FALSE, from |-> <<0, 0, 0>>,
          updated |-> FALSE]

RECURSIVE ApplyAiQueue(_, _, _, _, _, _, _)
\* React renders UFOManager: the queued updaters run in order.
ApplyAiQueue(list, track, reg, queue, k, targetY, samples) ==
    IF k > Len(queue) THEN [ufos |-> list, track |-> track, registry |-> reg]
    ELSE LET u == queue[k]
         IN  IF u.op = "append"
               THEN ApplyAiQueue(list \o u.items, track, reg, queue, k + 1, targetY, samples)
               ELSE LET step(i) == AiStep(list[i], list, u.delta, u.player, targetY, samples[i])
                        updatedUfos == [i \in 1..Len(list) |-> step(i).ufo]
                        seen == [i \in 1..Len(list) |->
                                   LET t == TrackOf(track, i)
                                       r == step(i)
                                   IN  [resampled |-> r.resampled, gap |-> t.since + u.delta,
                                        since |-> IF r.resampled THEN 0 ELSE t.since + u.delta,
                                        resamples |-> t.resamples
                                                        + (IF r.resampled THEN 1 ELSE 0),
                                        dirToPlayer |-> r.dirToPlayer,
                                        tooClose |-> r.tooClose,
                                        from |-> list[i].position, updated |-> TRUE]]
                    IN  ApplyAiQueue(updatedUfos, seen, RegistrySetAll(reg, updatedUfos, 1),
                                     queue, k + 1, targetY, samples)

\* The useFrame callback of UFOManager.
AiFrame ==
    \E d \in AiDeltas :
      \E yPos \in IF ShouldSpawn(Len(ufos), Age(timeSinceLastSpawn, d, SpawnClockCap))
                    THEN SpawnAltitudes ELSE {MIN_ALTITUDE},
         dir \in IF ShouldSpawn(Len(ufos), Age(timeSinceLastSpawn, d, SpawnClockCap))
                   THEN RandomDirections ELSE {<<0, 0, 0>>} :
        LET player == PlayerPosition(camera)
            since  == Age(timeSinceLastSpawn, d, SpawnClockCap)
            spawn  == ShouldSpawn(Len(ufos), since)
            id     == Len(ufos) + spawned
            new    == [id |-> id,
                       position |-> <<player[1] + SPAWN_DISTANCE, yPos, player[3]>>,
                       lastUpdateTime |-> 0, randomDirection |-> dir]
            w      == IF spawn THEN registerUFO(World, id) ELSE World
        IN  /\ ticks < MaxAiTicks
            /\ ufoQueue = << >>
            /\ timeSinceLastSpawn' = IF spawn THEN 0 ELSE since
            /\ spawned' = IF spawn THEN spawned + 1 ELSE spawned
            /\ ufoRegistry' = w.ufoRegistry
            /\ gameState' = w.gameState
            /\ ufoQueue' = (IF spawn THEN <<UfoUpdate("append", <<new>>, 0)>> ELSE << >>)
                             \o <<AiEntry(d, player)>>
            /\ ticks' = ticks + 1
            /\ aiObs' = [aiObs EXCEPT !.op = "frame", !.delta = d]
            /\ UNCHANGED <<projectiles, projQueue, fireAge, shots, lifetime, ufos, UFO_REGISTRY,
                           explosions, timers, projectileRegistry, combatObs, clock, fireLog>>
            /\ UNCHANGED <<registryObs, subscribers, cameraRef, camera, freeCamMode, loopObs>>
            /\ UNCHANGED <<recoveryObs, keysPressed, twin, planeRef>>

\* React renders UFOManager.
AiRender ==
    \E targetY \in TargetAltitudes,
       samples \in [1..(Len(ufos) + Len(ufoQueue) - 1) -> RandomDirections] :
        LET r == ApplyAiQueue(ufos, aiObs.track, UFO_REGISTRY, ufoQueue, 1, targetY, samples)
        IN  /\ ufoQueue # << >>
            /\ ufos' = r.ufos
            /\ UFO_REGISTRY' = r.registry
            /\ ufoQueue' = << >>
            /\ aiObs' = [aiObs EXCEPT !.op = "render", !.track = r.track]
            /\ UNCHANGED <<projectiles, projQueue, fireAge, shots, lifetime, timeSinceLastSpawn,
                           spawned, explosions, timers, gameState, ufoRegistry,
                           projectileRegistry, combatObs, clock, fireLog>>
            /\ UNCHANGED <<sceneVars, recoveryObs, keysPressed, twin, planeRef>>

InitAi ==
    /\ InitPlane
    /\ InitScene
    /\ twin = Mounted(DefaultCamera)
    /\ driven = "none"
    /\ \E starts \in AiStarts, dirs \in [1..Len(AiStartsFleet) -> RandomDirections] :
          ufos = [i \in 1..Len(starts) |->
                    [id |-> i - 1, position |-> starts[i], lastUpdateTime |-> 0,
                     randomDirection |-> dirs[i]]]
    /\ ufoRegistry = {ufos[i].id : i \in 1..Len(ufos)}
    /\ gameState = [score |-> 0, level |-> 1, ufoCount |-> Len(ufos),
                    playerHealth |-> 100, gameStatus |-> "playing"]
    /\ projectiles = << >>
    /\ projQueue = << >>
    /\ fireAge = cooldownPeriod
    /\ shots = 0
    /\ lifetime = << >>
    /\ ufoQueue = << >>
    /\ UFO_REGISTRY = << >>
    /\ timeSinceLastSpawn = 0
    /\ spawned = 0
    /\ explosions = << >>
    /\ timers = << >>
    /\ projectileRegistry = {}
    /\ combatObs = Observed("mount")
    /\ clock = 0
    /\ fireLog = << >>

NextAi ==
    \/ AiFrame /\ UNCHANGED flightVars
    \/ AiRender /\ UNCHANGED flightVars

SpecAi == InitAi /\ [][NextAi]_vars

(***************************************************************************)
(* The Explosion component from its mount to its removal.  Wall time       *)
(* passes in steps; a frame's delta is the time since the last frame; the  *)
(* fallback timer of the mount effect runs on wall time.  UFOManager       *)
(* renders after every frame (setUfos) and passes a new onComplete         *)
(* function each time, so the effect is cleaned up and run again.          *)
(***************************************************************************)
EXPLOSION_INTENSITY == 5000          \* intensity = 5, in thousandths

MaxFrameGap == 700                   \* ms without a frame (a hidden page)

\* The steps in which wall time passes (ms).
ExplosionSteps == {100, 300}

\* The effect of Explosion: full intensity, and the fallback timer armed.
ExplosionEffect(e) == [e EXCEPT !.intensity = EXPLOSION_INTENSITY, !.armed = 0]

\* An Explosion as it mounts.
MountedExplosion(id, pos) ==
    ExplosionEffect([id |-> id, position |-> pos, age |-> 0, intensity |-> 0, armed |-> 0])

\* 5 * (1 - lifetime.current / maxLifetime)
PulseIntensity(age) == EXPLOSION_INTENSITY - TDiv(EXPLOSION_INTENSITY * age, EXPLOSION_LIFETIME)

\* The useFrame callback of one Explosion, with lifetime.current already advanced.
ExplosionPulse(e) == [e EXCEPT !.intensity = PulseIntensity(e.age)]

\* Wall time passes without a frame; a timer that is due runs first.
ExplosionWait ==
    \E step \in ExplosionSteps :
        /\ explosions # << >>
        /\ clock + step <= MaxFrameGap
        /\ \A i \in 1..Len(explosions) : explosions[i].armed + step <= EXPLOSION_LIFETIME
        /\ clock' = clock + step
        /\ explosions' = [i \in 1..Len(explosions) |->
                            [explosions[i] EXCEPT !.armed = @ + step]]
        /\ combatObs' = [op |-> "wait", completed |-> << >>]
        /\ UNCHANGED <<projectiles, projQueue, fireAge, shots, lifetime, ufos, ufoQueue,
                       UFO_REGISTRY, timeSinceLastSpawn, spawned, timers, gameState,
                       ufoRegistry, projectileRegistry, fireLog>>

\* One frame: every Explosion ages by delta and either calls onComplete, which
\* is handleExplosionComplete(id), or sets the light's intensity.  UFOManager's
\* own callback calls setUfos, so a render follows.
ExplosionFrame ==
    LET aged == [i \in 1..Len(explosions) |-> [explosions[i] EXCEPT !.age = @ + clock]]
        done == SelectSeq(aged, LAMBDA e : e.age >= EXPLOSION_LIFETIME)
        live == SelectSeq(aged, LAMBDA e : ~(e.age >= EXPLOSION_LIFETIME))
    IN  /\ clock > 0
        /\ explosions' = [i \in 1..Len(live) |-> ExplosionPulse(live[i])]
        /\ ufoQueue' = <<UfoUpdate("ai", << >>, 0)>>
        /\ clock' = 0
        /\ combatObs' = [op |-> "frame", completed |-> done]
        /\ UNCHANGED <<projectiles, projQueue, fireAge, shots, lifetime, ufos, UFO_REGISTRY,
                       timeSinceLastSpawn, spawned, timers, gameState, ufoRegistry,
                       projectileRegistry, fireLog>>

\* The fallback timer of an Explosion runs maxLifetime after its effect ran:
\* onComplete, which is handleExplosionComplete(id).
ExplosionTimeout ==
    \E i \in 1..Len(explosions) :
        /\ explosions[i].armed >= EXPLOSION_LIFETIME
        /\ explosions' = SelectSeq(explosions, LAMBDA e : e.id # explosions[i].id)
        /\ ufoQueue' = <<UfoUpdate("ai", << >>, 0)>>
        /\ combatObs' = [op |-> "timeout", completed |-> <<explosions[i]>>]
        /\ UNCHANGED <<projectiles, projQueue, fireAge, shots, lifetime, ufos, UFO_REGISTRY,
                       timeSinceLastSpawn, spawned, timers, gameState, ufoRegistry,
                       projectileRegistry, clock, fireLog>>

\* React renders UFOManager: every Explosion gets a new onComplete, its effect
\* is cleaned up (clearTimeout) and run again.
ExplosionRender ==
    /\ ufoQueue # << >>
    /\ ufoQueue' = << >>
    /\ explosions' = [i \in 1..Len(explosions) |-> ExplosionEffect(explosions[i])]
    /\ combatObs' = [op |-> "render", completed |-> << >>]
    /\ UNCHANGED <<projectiles, projQueue, fireAge, shots, lifetime, ufos, UFO_REGISTRY,
                   timeSinceLastSpawn, spawned, timers, gameState, ufoRegistry,
                   projectileRegistry, clock, fireLog>>

\* The game after hits on the first adversaries, the projectiles gone: the
\* explosions of the hits have just mounted.
InitExplosion ==
    /\ InitPlane
    /\ InitScene
    /\ twin = Mounted(DefaultCamera)
    /\ driven = "none"
    /\ \E hits \in 1..2 :
          /\ ufos = [i \in 1..(InitialUfos - hits) |->
                       [id |-> i + hits - 1, position |-> Far]]
          /\ explosions = [i \in 1..hits |-> MountedExplosion(i - 1, Ahead)]
          /\ gameState = [score |-> hits * HIT_SCORE, level |-> 1,
                          ufoCount |-> InitialUfos - hits,
                          playerHealth |-> 100, gameStatus |-> "playing"]
    /\ UFO_REGISTRY = [i \in 1..Len(ufos) |-> [id |-> ufos[i].id, position |-> Far]]
    /\ ufoRegistry = {ufos[i].id : i \in 1..Len(ufos)}
    /\ projectiles = << >>
    /\ projQueue = << >>
    /\ fireAge = cooldownPeriod
    /\ shots = 1
    /\ lifetime = << >>
    /\ ufoQueue = << >>
    /\ timeSinceLastSpawn = 0
    /\ spawned = 0
    /\ timers = << >>
    /\ projectileRegistry = {}
    /\ combatObs = [op |-> "mount", completed |-> << >>]
    /\ clock = 0
    /\ fireLog = << >>

NextExplosion ==
    \/ ExplosionWait /\ UNCHANGED <<flightVars, sceneVars, caseVars>>
    \/ ExplosionFrame /\ UNCHANGED <<flightVars, sceneVars, caseVars>>
    \/ ExplosionTimeout /\ UNCHANGED <<flightVars, sceneVars, caseVars>>
    \/ ExplosionRender /\ UNCHANGED <<flightVars, sceneVars, caseVars>>

SpecExplosion == InitExplosion /\ [][NextExplosion]_vars

(***************************************************************************)
(* The banking scenario: the roll keys A and D and the reset key are       *)
(* pressed and released between the frames.  The aircraft flies level at   *)
(* its spawn speed, so no frame queues a state update.                     *)
(***************************************************************************)
MaxBankTicks == 4                    \* frames per behaviour

BankKeys == {"a", "d", "r"}

\* inputStateRef.current.roll from the held keys.
RollAxis(keys) == (IF keys.d THEN 1 ELSE 0) - (IF keys.a THEN 1 ELSE 0)

BankKeyDown == \E key \in BankKeys : handleKeyDown(key)

BankKeyUp == \E key \in BankKeys : handleKeyUp(key)

\* One frame of PlaneController with the roll keys as they are held.
BankFrame ==
    \E d \in FlightDeltas :
        /\ ticks < MaxBankTicks
        /\ FlightFrame(d, 0, RollAxis(keysPressed), 0)
        /\ ticks' = ticks + 1
        /\ recoveryObs' = [op |-> "frame", delta |-> d, rollAxis |-> RollAxis(keysPressed)]
        /\ UNCHANGED <<registryObs, subscribers, cameraRef, camera, freeCamMode, loopObs,
                       keysPressed, twin, planeRef, aiObs>>

InitBank ==
    /\ InitPlane
    /\ InitCombat
    /\ registryObs = NoRegistryObs
    /\ subscribers = << >>
    /\ cameraRef = [position |-> AddVec(startPosition, CAMERA_OFFSET), yaw |-> 0]
    /\ camera = DefaultCamera
    /\ freeCamMode = FALSE
    /\ ticks = 0
    /\ loopObs = NoLoopObs
    /\ recoveryObs = [op |-> "mount", delta |-> 0, rollAxis |-> 0]
    /\ keysPressed = [a |-> FALSE, d |-> FALSE]
    /\ planeRef = TRUE
    /\ aiObs = NoAiObs
    /\ twin = Mounted(DefaultCamera)
    /\ driven = "roll"

NextBank ==
    \/ BankKeyDown /\ UNCHANGED combatVars
    \/ BankKeyUp /\ UNCHANGED combatVars
    \/ BankFrame /\ UNCHANGED combatVars

SpecBank == InitBank /\ [][NextBank]_vars

(***************************************************************************)
(* The eviction of explosions.  handleExplosionComplete queues a filter of *)
(* UFOManager's explosions; until React renders it the Explosion component *)
(* stays mounted, its frame callback keeps reporting and its fallback      *)
(* timer may still run.  Wall time passes, frames run, timers run and      *)
(* React renders, all of them weakly fair.                                 *)
(***************************************************************************)
\* Variant of handleExplosionComplete: a report for an explosion that is not in
\* the collection removes the oldest one.
handleExplosionCompleteOrOldest(list, explosionId) ==
    IF explosionId \in Ids(list) \/ list = << >>
      THEN SelectSeq(list, LAMBDA e : e.id # explosionId)
      ELSE Tail(list)

\* The updater of handleExplosionComplete(explosionId):
\* prev.filter(exp => exp.id !== explosionId)
handleExplosionComplete(list, explosionId) ==
    SelectSeq(list, LAMBDA e : e.id # explosionId)

\* lifetime.current of an Explosion is not followed beyond this value (ms).
ExplosionAgeCap == EXPLOSION_LIFETIME + MaxFrameGap

\* armed of an Explosion whose fallback timer has run.
TimerSpent == -1

\* The completion reports queued for UFOManager, in order.
Reports(queue) == SelectSeq(queue, LAMBDA u : u.op = "evict")

RECURSIVE ApplyReports(_, _, _)
\* React runs the queued filters in order.
ApplyReports(list, reports, i) ==
    IF i > Len(reports) THEN list
    ELSE ApplyReports(handleExplosionComplete(list, reports[i].id), reports, i + 1)

\* Wall time passes without a frame; a timer that is due runs first.
EvictWait ==
    \E step \in ExplosionSteps :
        /\ explosions # << >>
        /\ clock + step <= MaxFrameGap
        /\ \A i \in 1..Len(explosions) :
              explosions[i].armed # TimerSpent => explosions[i].armed + step <= EXPLOSION_LIFETIME
        /\ clock' = clock + step
        /\ explosions' = [i \in 1..Len(explosions) |->
                            IF explosions[i].armed = TimerSpent THEN explosions[i]
                            ELSE [explosions[i] EXCEPT !.armed = @ + step]]
        /\ combatObs' = [op |-> "wait", completed |-> << >>]
        /\ UNCHANGED <<projectiles, projQueue, fireAge, shots, lifetime, ufos, ufoQueue,
                       UFO_REGISTRY, timeSinceLastSpawn, spawned, timers, gameState,
                       ufoRegistry, projectileRegistry, fireLog>>

\* One frame: every mounted Explosion ages by delta and either calls onComplete
\* or sets the light's intensity; UFOManager's own callback calls setUfos.
EvictFrame ==
    LET aged  == [i \in 1..Len(explosions) |->
                    [explosions[i] EXCEPT !.age = Min(@ + clock, ExplosionAgeCap)]]
        done  == SelectSeq(aged, LAMBDA e : e.age >= EXPLOSION_LIFETIME)
    IN  /\ clock > 0
        /\ Unrendered < MaxStale
        /\ explosions' = [i \in 1..Len(aged) |->
                            IF aged[i].age >= EXPLOSION_LIFETIME THEN aged[i]
                            ELSE ExplosionPulse(aged[i])]
        /\ ufoQueue' = ufoQueue \o [i \in 1..Len(done) |-> UfoUpdate("evict", << >>, done[i].id)]
                                \o <<UfoUpdate("ai", << >>, 0)>>
        /\ clock' = 0
        /\ combatObs' = [op |-> "frame", completed |-> done]
        /\ UNCHANGED <<projectiles, projQueue, fireAge, shots, lifetime, ufos, UFO_REGISTRY,
                       timeSinceLastSpawn, spawned, timers, gameState, ufoRegistry,
                       projectileRegistry, fireLog>>

\* The fallback timer of a mounted Explosion runs maxLifetime after its effect
\* ran: onComplete.
EvictTimeout ==
    \E i \in 1..Len(explosions) :
        /\ explosions[i].armed >= EXPLOSION_LIFETIME
        /\ explosions' = [explosions EXCEPT ![i].armed = TimerSpent]
        /\ ufoQueue' = Append(ufoQueue, UfoUpdate("evict", << >>, explosions[i].id))
        /\ combatObs' = [op |-> "timeout", completed |-> <<explosions[i]>>]
        /\ UNCHANGED <<projectiles, projQueue, fireAge, shots, lifetime, ufos, UFO_REGISTRY,
                       timeSinceLastSpawn, spawned, timers, gameState, ufoRegistry,
                       projectileRegistry, clock, fireLog>>

\* React renders UFOManager: the queued filters run, the evicted Explosions
\* unmount (their timers are cleared), and every remaining Explosion gets a new
\* onComplete, so its effect is cleaned up and run again.
EvictRender ==
    LET rest == ApplyReports(explosions, Reports(ufoQueue), 1)
    IN  /\ ufoQueue # << >>
        /\ ufoQueue' = << >>
        /\ explosions' = [i \in 1..Len(rest) |-> ExplosionEffect(rest[i])]
        /\ combatObs' = [op |-> "render", completed |-> << >>]
        /\ UNCHANGED <<projectiles, projQueue, fireAge, shots, lifetime, ufos, UFO_REGISTRY,
                       timeSinceLastSpawn, spawned, timers, gameState, ufoRegistry,
                       projectileRegistry, clock, fireLog>>

\* The game after two hits: the explosion of the second hit has just mounted,
\* the explosion of the first is as old or 0.3 s older; the render that mounted
\* the second has run the effect of the first again.
InitEvict ==
    /\ InitPlane
    /\ InitScene
    /\ twin = Mounted(DefaultCamera)
    /\ driven = "none"
    /\ ufos = [i \in 1..(InitialUfos - 2) |-> [id |-> i + 1, position |-> Far]]
    /\ \E age \in {0, 300} :
          explosions = <<[MountedExplosion(0, Ahead) EXCEPT !.age = age],
                         MountedExplosion(1, Ahead)>>
    /\ gameState = [score |-> 2 * HIT_SCORE, level |-> 1, ufoCount |-> InitialUfos - 2,
                    playerHealth |-> 100, gameStatus |-> "playing"]
    /\ UFO_REGISTRY = [i \in 1..Len(ufos) |-> [id |-> ufos[i].id, position |-> Far]]
    /\ ufoRegistry = {ufos[i].id : i \in 1..Len(ufos)}
    /\ projectiles = << >>
    /\ projQueue = << >>
    /\ fireAge = cooldownPeriod
    /\ shots = 1
    /\ lifetime = << >>
    /\ ufoQueue = << >>
    /\ timeSinceLastSpawn = 0
    /\ spawned = 0
    /\ timers = << >>
    /\ projectileRegistry = {}
    /\ combatObs = [op |-> "mount", completed |-> << >>]
    /\ clock = 0
    /\ fireLog = << >>

NextEvict ==
    \/ EvictWait /\ UNCHANGED <<flightVars, sceneVars, caseVars>>
    \/ EvictFrame /\ UNCHANGED <<flightVars, sceneVars, caseVars>>
    \/ EvictTimeout /\ UNCHANGED <<flightVars, sceneVars, caseVars>>
    \/ EvictRender /\ UNCHANGED <<flightVars, sceneVars, caseVars>>

SpecEvict ==
    /\ InitEvict
    /\ [][NextEvict]_vars
    /\ WF_combatVars(EvictWait)
    /\ WF_combatVars(EvictFrame)
    /\ WF_combatVars(EvictTimeout)
    /\ WF_combatVars(EvictRender)

(***************************************************************************)
(* The population scenario: adversaries have been shot down, nobody fires  *)
(* any more, and the frames go on.  The frame loop runs as long as the     *)
(* Canvas is mounted and React renders whatever is queued, so frames and   *)
(* renders are weakly fair.                                                *)
(***************************************************************************)
\* Frame times of this scenario (ms): ordinary frames, and a stall longer than
\* the spawn cooldown.
FloorDeltas == {500, 1000, 2100}

\* Where the adversaries are steered to in this scenario.
FloorCells == {Far, Ahead}

\* One frame; the parity of the frames run is kept in clock.  The frames of this
\* scenario are half a second or more apart, so React has rendered the frame
\* before.
FloorTick ==
    \E d \in FloorDeltas : \E cell \in FloorCells :
        /\ Unrendered = 0
        /\ CombatStep(d, cell)
        /\ clock' = 1 - clock

FloorRender ==
    \E cell \in (IF \E i \in 1..Len(ufoQueue) : ufoQueue[i].op = "ai"
                   THEN FloorCells ELSE {Far}) : Render(cell)

\* The game after hits on the first adversaries: they are removed, their
\* explosions are over, no projectile is left.
InitFloor ==
    /\ InitPlane
    /\ InitScene
    /\ twin = Mounted(DefaultCamera)
    /\ driven = "none"
    /\ \E hits \in 1..MaxSpawns :
          /\ ufos = [i \in 1..(InitialUfos - hits) |->
                       [id |-> i + hits - 1, position |-> Far]]
          /\ gameState = [score |-> hits * HIT_SCORE, level |-> 1,
                          ufoCount |-> InitialUfos - hits,
                          playerHealth |-> 100, gameStatus |-> "playing"]
    /\ UFO_REGISTRY = [i \in 1..Len(ufos) |-> [id |-> ufos[i].id, position |-> Far]]
    /\ ufoRegistry = {ufos[i].id : i \in 1..Len(ufos)}
    /\ explosions = << >>
    /\ projectiles = << >>
    /\ projQueue = << >>
    /\ fireAge = cooldownPeriod
    /\ shots = 1
    /\ lifetime = << >>
    /\ ufoQueue = << >>
    /\ timeSinceLastSpawn \in {0, SPAWN_COOLDOWN}
    /\ spawned = 0
    /\ timers = << >>
    /\ projectileRegistry = {}
    /\ combatObs = Observed("mount")
    /\ clock = 0
    /\ fireLog = << >>

NextFloor ==
    \/ FloorTick /\ UNCHANGED <<flightVars, sceneVars, caseVars>>
    \/ FloorRender /\ UNCHANGED <<flightVars, sceneVars, caseVars>>

\* The steps of FloorTick and the condition under which it can run: a frame
\* flips the parity, and nothing else does.
FrameDue == Unrendered = 0 /\ clock' = 1 - clock

\* The steps of FloorRender that commit a frame of UFOManager, and the condition
\* under which there is one to commit.
RenderDue == ufoQueue # << >> /\ ufoQueue' = << >>

\* requestAnimationFrame keeps calling the frame loop, and React renders what
\* is queued: a frame that can run does run, and so does a render.
SpecFloor ==
    /\ InitFloor
    /\ [][NextFloor]_vars
    /\ WF_clock(FrameDue)
    /\ WF_ufoQueue(RenderDue)

(***************************************************************************)
(* Properties of the flight controller (checked under SpecFlight)          *)
(***************************************************************************)
\* C5: in every reachable state (after every tick, the tick that enters recovery
\* and a reset included) pitch is within [-MAX_PITCH_ANGLE, MAX_PITCH_ANGLE],
\* roll within [-MAX_ROLL_ANGLE, MAX_ROLL_ANGLE], and the speed, committed or
\* queued, within [MIN_SPEED, MAX_SPEED].
C5_PitchRollSpeedBounded ==
    /\ rotationState.pitch >= -MAX_PITCH_ANGLE /\ rotationState.pitch <= MAX_PITCH_ANGLE
    /\ rotationState.roll >= -MAX_ROLL_ANGLE /\ rotationState.roll <= MAX_ROLL_ANGLE
    /\ speed >= MIN_SPEED /\ speed <= MAX_SPEED
    /\ planeQueue.hasSpeed => planeQueue.speed >= MIN_SPEED /\ planeQueue.speed <= MAX_SPEED

\* C5 happens: a tick has entered recovery with the pitch on its lower bound and
\* the reduced speed on the floor.
C5_Witness ==
    /\ flightObs.handled
    /\ rotationState.pitch = -MAX_PITCH_ANGLE
    /\ planeQueue.hasColliding /\ planeQueue.speed = MIN_SPEED

\* C6 as stated: the yaw lies in the half-open interval (-PI, PI].
C6_YawHalfOpen == rotationState.yaw > -PI /\ rotationState.yaw <= PI

\* C6 amended: the yaw lies in the closed interval [-PI, PI]; the lower end -PI
\* is left as it is by normalizeAngle.
C6_YawClosed == rotationState.yaw >= -PI /\ rotationState.yaw <= PI

\* C6 happens: a sequence of turning ticks has brought the yaw to exactly -PI.
C6_Witness == driven = "roll" /\ rotationState.yaw = -PI /\ rotationState.roll # 0

\* C7: a reset step yields the spawn state in every field: position, rotation
\* state and orientation, speed, collision flag and message, and a last-collision
\* time as far in the past as at spawn.
C7_ResetYieldsSpawnState ==
    [][resetPlane =>
         /\ position' = startPosition
         /\ rotationState' = SpawnRotation
         /\ quaternion' = IdentityQuaternion
         /\ speed' = SPAWN_SPEED
         /\ isColliding' = FALSE
         /\ collisionMessage' = ""
         /\ collisionAge' = COLLISION_COOLDOWN]_vars

\* C8: a tick that detects a collision less than COLLISION_COOLDOWN after the
\* last handled one drops it: it queues no recovery transition and no speed
\* reduction (the queue gets the throttle update only), and a collision is
\* dropped only inside that window.
C8_SecondCollisionDropped ==
    [][(Frame /\ flightObs'.collision # "none" /\ ~flightObs'.handled) =>
         /\ collisionAge' < COLLISION_COOLDOWN
         /\ planeQueue'.hasColliding = planeQueue.hasColliding
         /\ planeQueue'.isColliding = planeQueue.isColliding
         /\ planeQueue'.collisionMessage = planeQueue.collisionMessage
         /\ \E d \in FlightDeltas : \E speedAxis \in Axis :
               planeQueue' = SetSpeed(planeQueue,
                  NewSpeed(speed, TDiv(speedAxis * ACCELERATION * Min(d, MAX_DELTA), 1000)))]_vars

\* C8 happens: a recovery transition is queued and a later tick, less than
\* COLLISION_COOLDOWN after it, has detected a collision and dropped it.
C8_Witness ==
    /\ flightObs.collision # "none" /\ ~flightObs.handled
    /\ planeQueue.hasColliding
    /\ collisionAge < COLLISION_COOLDOWN

\* C9: a tick that enters recovery does not commit the colliding candidate
\* position.
C9_CollidingPositionNotCommitted ==
    [][(Frame /\ flightObs'.handled) => position' = position]_vars

(***************************************************************************)
(* Properties of weapon system and adversaries (checked under SpecCombat)  *)
(***************************************************************************)
\* The ids a queue of setState calls appends and removes.
Appended(queue) == UNION {Ids(queue[i].items) : i \in {k \in 1..Len(queue) : queue[k].op = "append"}}

FilteredProjectiles(queue) == UNION {queue[i].ids : i \in {k \in 1..Len(queue) : queue[k].op = "filter"}}

FilteredUfos(queue) == {queue[i].id : i \in {k \in 1..Len(queue) : queue[k].op = "filter"}}

\* C1: a tick whose collision pass finds exactly one projectile within hit range
\* of exactly one registered adversary produces exactly one HitEvent, for that
\* adversary, and marks exactly that projectile for removal; delivering a HitEvent
\* removes exactly its adversary from the registry, queues its removal from the
\* collection and adds exactly 100 to the score; a render removes exactly the
\* projectiles and adversaries whose removal is queued.
C1_SingleHit ==
    [][/\ (combatObs'.op = "frame" /\ Cardinality(combatObs'.inRange) = 1) =>
            \E pair \in combatObs'.inRange :
               /\ Len(combatObs'.hits) = 1
               /\ combatObs'.hits[1].kind = "hit" /\ combatObs'.hits[1].id = pair[2]
               /\ timers' = timers \o combatObs'.hits
               /\ combatObs'.removed = {pair[1]}
               /\ pair[1] \notin projectileRegistry'
               /\ projectileRegistry \ projectileRegistry' \subseteq
                     {pair[1]} \cup {id \in DOMAIN lifetime' : lifetime'[id] > maxLifetime}
               /\ \E i \in 1..Len(projQueue') :
                     projQueue'[i].op = "filter" /\ projQueue'[i].ids = {pair[1]}
               /\ gameState'.score = gameState.score
       /\ combatObs'.op = "hit" =>
            LET X == timers[FirstTimer("hit")].id
            IN  /\ gameState'.score = gameState.score + HIT_SCORE
                /\ Ids(UFO_REGISTRY') = Ids(UFO_REGISTRY) \ {X}
                /\ ufoQueue' = Append(ufoQueue, UfoUpdate("filter", << >>, X))
       /\ combatObs'.op = "render" =>
            /\ Ids(projectiles') =
                 (Ids(projectiles) \cup Appended(projQueue)) \ FilteredProjectiles(projQueue)
            /\ Ids(ufos') = (Ids(ufos) \cup Appended(ufoQueue)) \ FilteredUfos(ufoQueue)]_vars

\* C1 happens: the last collision pass saw exactly one pair in range and produced
\* its HitEvent.
C1_Witness ==
    /\ combatObs.op = "frame"
    /\ Cardinality(combatObs.inRange) = 1
    /\ Len(combatObs.hits) = 1

\* The setProjectiles calls a frame has added to the queue.
QueuedByFrame == SubSeq(projQueue', Len(projQueue) + 1, Len(projQueue'))

\* The advance the frame has requested: the frame time of its "map" entry.
AdvanceOf(queue) == queue[CHOOSE k \in 1..Len(queue) : queue[k].op = "map"].delta

\* C30 as stated: in every tick the collision pass works on the positions the
\* tick's advance gives: each HitEvent of the tick is for an adversary within hit
\* range of the advanced position of a projectile the pass removes.
C30_CollidesAfterAdvance ==
    [][combatObs'.op = "frame" =>
          \A h \in 1..Len(combatObs'.hits) :
              \E k \in 1..Len(projectiles) :
                  /\ projectiles[k].id \in combatObs'.removed
                  /\ InRange(Advance(projectiles[k], AdvanceOf(QueuedByFrame)).position,
                             combatObs'.hits[h].position)]_vars

\* C30, amended: in every tick WeaponSystem first runs the collision pass, on the
\* rendered positions (those of the last render, not advanced in this tick), and
\* then requests the advance of every projectile by direction * 70 * delta, which
\* a later render applies; the removal of the hit projectiles is queued before
\* the advance.
C30_CollidesBeforeAdvance ==
    [][combatObs'.op = "frame" =>
          /\ projectiles' = projectiles
          /\ \A h \in 1..Len(combatObs'.hits) :
                \E k \in 1..Len(projectiles) :
                    /\ projectiles[k].id \in combatObs'.removed
                    /\ InRange(projectiles[k].position, combatObs'.hits[h].position)
          /\ (combatObs'.removed # {}) =
                (\E k \in 1..Len(projectiles) : \E i \in 1..Len(UFO_REGISTRY') :
                    InRange(projectiles[k].position, UFO_REGISTRY'[i].position))
          /\ \E k \in 1..Len(QueuedByFrame) :
                /\ QueuedByFrame[k].op = "map"
                /\ \A j \in 1..(k - 1) :
                      QueuedByFrame[j].op = "filter" /\ QueuedByFrame[j].ids = combatObs'.removed
                /\ (combatObs'.removed # {}) => k = 2
                /\ \A j \in 1..Len(projQueue') :
                      projQueue'[j].op = "map" /\ j > Len(projQueue)
                        => /\ j = Len(projQueue) + k
                           /\ projQueue'[j].items = << >>]_vars

\* The last tick's collision pass removed a projectile, and its removal stands in
\* the queue right before the tick's advance.
C30_Witness ==
    /\ combatObs.op = "frame"
    /\ combatObs.removed # {}
    /\ Len(combatObs.hits) >= 1
    /\ \E k \in 1..(Len(projQueue) - 1) :
          /\ projQueue[k].op = "filter" /\ projQueue[k].ids = combatObs.removed
          /\ projQueue[k + 1].op = "map"

\* The projectiles the last collision pass saw within hit range of adversary u.
InRangeOf(u) == {pair[1] : pair \in {x \in combatObs.inRange : x[2] = u}}

\* C2: in one collision pass every adversary gets at most one HitEvent and every
\* projectile produces at most one; an adversary with two projectiles in range
\* gets exactly one HitEvent (unless both were consumed by other adversaries).
C2_OneHitPerAdversary ==
    combatObs.op = "frame" =>
       /\ \A i, j \in 1..Len(combatObs.hits) :
             combatObs.hits[i].id = combatObs.hits[j].id => i = j
       /\ Len(combatObs.hits) = Cardinality(combatObs.removed)
       /\ \A u \in {pair[2] : pair \in combatObs.inRange} :
             Cardinality(InRangeOf(u)) >= 2 =>
                \/ Cardinality({i \in 1..Len(combatObs.hits) : combatObs.hits[i].id = u}) = 1
                \/ /\ InRangeOf(u) \subseteq combatObs.removed
                   /\ Cardinality({i \in 1..Len(combatObs.hits) : combatObs.hits[i].id # u})
                         >= Cardinality(InRangeOf(u))

\* C2 happens: the last collision pass saw two projectiles in range of one
\* adversary and produced one HitEvent.
C2_Witness ==
    /\ combatObs.op = "frame"
    /\ \E u \in {pair[2] : pair \in combatObs.inRange} : Cardinality(InRangeOf(u)) = 2
    /\ Len(combatObs.hits) = 1

\* C3: a frame (with its collision pass) removes no adversary from the registry
\* or the collection, queues no removal and changes no score: every HitEvent of
\* the pass is pending when the pass has completed, and only the delivery of a
\* HitEvent changes the score.
C3_HitDeliveryDeferred ==
    [][/\ combatObs'.op = "frame" =>
            /\ Ids(UFO_REGISTRY) \subseteq Ids(UFO_REGISTRY')
            /\ ufos' = ufos
            /\ FilteredUfos(ufoQueue') = FilteredUfos(ufoQueue)
            /\ ufoRegistry \subseteq ufoRegistry'
            /\ gameState'.score = gameState.score
            /\ timers' = timers \o combatObs'.hits
       /\ gameState'.score # gameState.score => combatObs'.op = "hit"]_vars

\* C3 happens: a collision pass has completed, its HitEvent is pending, and the
\* adversary it names is still in the registry and in the collection.
C3_Witness ==
    /\ combatObs.op = "frame"
    /\ Len(combatObs.hits) >= 1
    /\ \A i \in 1..Len(combatObs.hits) :
          /\ combatObs.hits[i].id \in Ids(UFO_REGISTRY)
          /\ combatObs.hits[i].id \in Ids(ufos)
          /\ \E k \in 1..Len(timers) : timers[k] = combatObs.hits[i]

\* C10 as stated: a tick spawns exactly when the collection holds fewer than
\* POPULATION_FLOOR adversaries and at least SPAWN_COOLDOWN has accumulated since
\* the last spawn.
C10_SpawnAtCooldown ==
    [][combatObs'.op = "frame" =>
         (spawned' # spawned <=>
            (Len(ufos) < POPULATION_FLOOR /\ combatObs'.since >= SPAWN_COOLDOWN))]_vars

\* C10 amended: a tick spawns exactly when the rendered collection holds fewer
\* than POPULATION_FLOOR adversaries and strictly more than SPAWN_COOLDOWN has
\* accumulated since the last spawn; it then spawns exactly one adversary.
C10_SpawnAfterCooldown ==
    [][combatObs'.op = "frame" =>
         LET gate == Len(ufos) < POPULATION_FLOOR /\ combatObs'.since > SPAWN_COOLDOWN
         IN  /\ spawned' = (IF gate THEN spawned + 1 ELSE spawned)
             /\ Cardinality(ufoRegistry' \ ufoRegistry) = (IF gate THEN 1 ELSE 0)
             /\ Cardinality(Appended(ufoQueue')) =
                  Cardinality(Appended(ufoQueue)) + (IF gate THEN 1 ELSE 0)
             /\ timeSinceLastSpawn' = (IF gate THEN 0 ELSE combatObs'.since)]_vars

\* C10 happens: a tick found four adversaries in the collection after the
\* cooldown and has spawned one.
C10_Witness ==
    /\ combatObs.op = "frame"
    /\ combatObs.spawn
    /\ Len(ufos) = POPULATION_FLOOR - 1
    /\ Cardinality(Appended(ufoQueue)) = 1

\* C11: a tick in which a projectile's age has passed maxLifetime (3 s) queues
\* its removal from the projectile collection and drops it from the projectile
\* registry; a removal is queued only for a projectile that is older than
\* maxLifetime or that the collision pass has consumed; the HitEvents of the tick
\* are those of its collision pass alone, and the score is unchanged; the next
\* render removes the projectile, again with no HitEvent and no score change.
C11_ExpiredRemovedSilently ==
    [][/\ combatObs'.op = "frame" =>
            LET expired == {id \in DOMAIN lifetime' : lifetime'[id] > maxLifetime}
            IN  /\ expired \cap projectileRegistry' = {}
                /\ expired \subseteq FilteredProjectiles(projQueue')
                /\ FilteredProjectiles(projQueue') \ FilteredProjectiles(projQueue)
                      \subseteq expired \cup combatObs'.removed
                /\ combatObs'.removed \subseteq {pair[1] : pair \in combatObs'.inRange}
                /\ Len(combatObs'.hits) = Cardinality(combatObs'.removed)
                /\ timers' = timers \o combatObs'.hits
                /\ gameState'.score = gameState.score
       /\ combatObs'.op = "render" =>
            /\ Ids(projectiles') \cap FilteredProjectiles(projQueue) = {}
            /\ timers' = timers
            /\ gameState' = gameState]_vars

\* C11 happens: a projectile that hit nothing has aged past maxLifetime, the last
\* tick has queued its removal, and no HitEvent and no score came of it.
C11_Witness ==
    /\ combatObs.op = "frame"
    /\ combatObs.hits = << >>
    /\ timers = << >>
    /\ gameState.score = 0
    /\ \E id \in DOMAIN lifetime :
          /\ lifetime[id] > maxLifetime
          /\ id \in FilteredProjectiles(projQueue)
          /\ id \notin projectileRegistry

\* C13: in no reachable state does an explosion for an adversary exist while
\* that adversary is still in the rendered collection or in the dynamic registry.
C13_ExplosionAfterRemoval ==
    \A i \in 1..Len(explosions) :
        /\ explosions[i].id \notin Ids(ufos)
        /\ explosions[i].id \notin Ids(UFO_REGISTRY)

(***************************************************************************)
(* Properties of the static registry (checked under SpecRegistry)          *)
(***************************************************************************)
\* The sphere of the given radius about center holds a point of the box that
\* spans position - size / 2 to position + size / 2.  Centre, radius and box
\* corners are whole numbers, so the nearest point of the box is a grid point.
SphereMeetsBox(b, center, radius) ==
    \E dx \in (-radius)..radius : \E dy \in (-radius)..radius : \E dz \in (-radius)..radius :
        LET point == <<center[1] + dx, center[2] + dy, center[3] + dz>>
        IN  /\ \A i \in 1..3 :
                 /\ 2 * point[i] >= 2 * b.position[i] - b.size[i]
                 /\ 2 * point[i] <= 2 * b.position[i] + b.size[i]
            /\ DistSq(point, center) <= radius * radius

\* C22: registering an id leaves exactly one entry for it, the one registered,
\* whether the id was present or not, and touches no other entry; registering
\* what is registered already leaves the registry as it is; unregistering
\* removes the id's entry alone, and leaves the registry as it is when the id
\* is absent.
C22_RegisterUpserts ==
    [][LET o == registryObs'
       IN  /\ o.op = "register" =>
                /\ DOMAIN BUILDING_REGISTRY' = DOMAIN BUILDING_REGISTRY \cup {o.id}
                /\ BUILDING_REGISTRY'[o.id] = o.entry
                /\ \A k \in DOMAIN BUILDING_REGISTRY \ {o.id} :
                      BUILDING_REGISTRY'[k] = BUILDING_REGISTRY[k]
                /\ o.present = (o.id \in DOMAIN BUILDING_REGISTRY)
                /\ (o.present /\ BUILDING_REGISTRY[o.id] = o.entry)
                      => BUILDING_REGISTRY' = BUILDING_REGISTRY
           /\ o.op = "unregister" =>
                /\ DOMAIN BUILDING_REGISTRY' = DOMAIN BUILDING_REGISTRY \ {o.id}
                /\ \A k \in DOMAIN BUILDING_REGISTRY' :
                      BUILDING_REGISTRY'[k] = BUILDING_REGISTRY[k]
                /\ ~o.present => BUILDING_REGISTRY' = BUILDING_REGISTRY]_vars

\* An id that was present has been registered again with another obstacle, next
\* to the entry of another id.
C22_Witness ==
    /\ registryObs.op = "register"
    /\ registryObs.present
    /\ Cardinality(DOMAIN BUILDING_REGISTRY) = 2
    /\ \E k \in DOMAIN BUILDING_REGISTRY :
          k # registryObs.id /\ BUILDING_REGISTRY[k] # BUILDING_REGISTRY[registryObs.id]

\* C12: a query of the static registry for a candidate position answers true
\* exactly when the aircraft's bounding sphere at that position holds a point of
\* the box (centre +- half the size) of an obstacle registered at that moment; an
\* obstacle that has been unregistered, or replaced under its id, counts no more.
C12_QueryIffIntersects ==
    [][registryObs'.op = "query" =>
         /\ registryObs'.result =
               (\E id \in DOMAIN BUILDING_REGISTRY :
                   SphereMeetsBox(BUILDING_REGISTRY[id], registryObs'.probe,
                                  PLANE_COLLISION_RADIUS))
         /\ DOMAIN BUILDING_REGISTRY = {} => ~registryObs'.result
         /\ DOMAIN registryObs'.retired \cap DOMAIN BUILDING_REGISTRY = {}]_vars

\* C12 happens: an obstacle has been unregistered while another stays registered,
\* and a query at a position whose sphere meets the box of the unregistered one
\* has answered false.
C12_Witness ==
    /\ registryObs.op = "query"
    /\ ~registryObs.result
    /\ DOMAIN BUILDING_REGISTRY # {}
    /\ \E id \in DOMAIN registryObs.retired :
          SphereMeetsBox(registryObs.retired[id], registryObs.probe, PLANE_COLLISION_RADIUS)

(***************************************************************************)
(* Properties of the fire-rate gate (checked under SpecFire)               *)
(***************************************************************************)
\* C4: a fire request is accepted iff no accepted request lies less than
\* cooldownPeriod before it (so the first is accepted); a rejected request queues
\* nothing: two projectiles exist per accepted request; requests at 0, 50, 100,
\* 150 and 200 ms give exactly two accepted shots, at 0 and at 200.
C4_FireRateGate ==
    /\ \A i \in 1..Len(fireLog) :
          fireLog[i].accepted <=>
             \A j \in 1..(i - 1) :
                fireLog[j].accepted => fireLog[i].at - fireLog[j].at >= cooldownPeriod
    /\ Len(ApplyProjQueue(projectiles, projQueue, 1))
          = 2 * Cardinality({i \in 1..Len(fireLog) : fireLog[i].accepted})
    /\ shots = Cardinality({i \in 1..Len(fireLog) : fireLog[i].accepted})
    /\ [i \in 1..Len(fireLog) |-> fireLog[i].at] = <<0, 50, 100, 150, 200>> =>
          [i \in 1..Len(fireLog) |-> fireLog[i].accepted] = <<TRUE, FALSE, FALSE, FALSE, TRUE>>

\* C4 happens: the fire key was pressed at 0, 50, 100, 150 and 200 ms.
C4_Witness ==
    /\ [i \in 1..Len(fireLog) |-> fireLog[i].at] = <<0, 50, 100, 150, 200>>
    /\ shots = 2

(***************************************************************************)
(* Properties of the whole loop (checked under SpecLoop)                   *)
(***************************************************************************)
\* The callbacks of the flight controller and camera rig (one callback), of the
\* weapon system (two) and of the adversary manager.
CoreCallbacks == {"PlaneController", "WeaponSystem.collision", "WeaponSystem.advance",
                  "UFOManager"}

\* The places of a callback in the log of a frame.
Places(log, callback) == {i \in 1..Len(log) : log[i] = callback}

AlongRight(v, q) == v[1] * CosMilli(q.yaw) - v[3] * SinMilli(q.yaw)

\* C15: an accepted fire queues exactly two new projectiles, one offset to the
\* right and one mirrored to the left of the aircraft, both with the aircraft's
\* forward direction of that instant, and the next render adds exactly these;
\* a rejected fire queues and registers nothing.
C15_TwoProjectilesPerFire ==
    [][loopObs'.op = "fire" =>
          IF FireAccepted(fireAge)
            THEN /\ Len(projQueue') = Len(projQueue) + 1
                 /\ SubSeq(projQueue', 1, Len(projQueue)) = projQueue
                 /\ LET u == projQueue'[Len(projQueue')]
                        right == [i \in 1..3 |-> u.items[1].position[i] - PlanePosition[i]]
                        left  == [i \in 1..3 |-> u.items[2].position[i] - PlanePosition[i]]
                    IN  /\ u.op = "append"
                        /\ Len(u.items) = 2
                        /\ u.items[1].id # u.items[2].id
                        /\ Ids(u.items) \cap (Ids(projectiles) \cup projectileRegistry) = {}
                        /\ \A i \in 1..2 : u.items[i].direction = Forward(quaternion)
                        /\ \A i \in 1..3 : left[i] = -right[i]
                        /\ AlongRight(right, quaternion) > 0
                        /\ AlongRight(left, quaternion) < 0
                        /\ projectileRegistry' = projectileRegistry \cup Ids(u.items)
                        /\ Len(ApplyProjQueue(projectiles, projQueue', 1))
                             = Len(ApplyProjQueue(projectiles, projQueue, 1)) + 2
            ELSE /\ projQueue' = projQueue
                 /\ projectileRegistry' = projectileRegistry
                 /\ projectiles' = projectiles]_vars

\* The guns were fired with the aircraft turned and banked, and a later press
\* inside the cooldown was rejected.
C15_Witness ==
    /\ loopObs.op = "fire"
    /\ ~FireAccepted(fireAge)
    /\ fireAge > 0
    /\ Len(projectiles) = 2
    /\ projectiles[1].direction[1] # 0
    /\ projectiles[1].position[2] # projectiles[2].position[2]

\* The element of a collection with an id.
WithId(list, id) == list[CHOOSE i \in 1..Len(list) : list[i].id = id]

RECURSIVE Travel(_, _, _)
\* The way made along one axis by the advances queued from place k on, for a
\* direction component c (thousandths): the sum of c * 70 * delta, in tenths.
Travel(queue, k, c) ==
    IF k > Len(queue) THEN 0
    ELSE (IF queue[k].op = "map" THEN TDiv(c * PROJECTILE_SPEED * queue[k].delta, 1000000)
          ELSE 0) + Travel(queue, k + 1, c)

\* C16: no step (frame, render, fire, maneuver, reset) changes the direction of a
\* projectile in flight; a new projectile is rendered with the direction it was
\* queued with; every frame queues one advance by its delta, and the render
\* moves each projectile by the queued advances along its own direction.
C16_DirectionFrozen ==
    [][/\ \A id \in Ids(projectiles) \cap Ids(projectiles') :
            /\ WithId(projectiles', id).direction = WithId(projectiles, id).direction
            /\ \A i \in 1..3 :
                 WithId(projectiles', id).position[i]
                   = WithId(projectiles, id).position[i]
                       + (IF loopObs'.op = "render"
                            THEN Travel(projQueue, 1, WithId(projectiles, id).direction[i])
                            ELSE 0)
       /\ \A id \in Ids(projectiles') \ Ids(projectiles) :
            \E k \in 1..Len(projQueue) :
                /\ projQueue[k].op = "append"
                /\ id \in Ids(projQueue[k].items)
                /\ WithId(projectiles', id).direction
                     = WithId(projQueue[k].items, id).direction
                /\ \A i \in 1..3 :
                     WithId(projectiles', id).position[i]
                       = WithId(projQueue[k].items, id).position[i]
                           + Travel(projQueue, k + 1, WithId(projQueue[k].items, id).direction[i])
       /\ loopObs'.op = "frame" =>
            \E k \in 1..Len(projQueue') :
                /\ k > Len(projQueue)
                /\ projQueue'[k] = ProjUpdate("map", << >>, {}, loopObs'.delta)
                /\ \A j \in (Len(projQueue) + 1)..Len(projQueue') :
                     projQueue'[j].op = "map" => j = k]_vars

\* Two projectiles are in flight, they have moved, and the aircraft has turned
\* away from their direction since they were fired.
C16_Witness ==
    /\ loopObs.op = "render"
    /\ Len(projectiles) = 2
    /\ \A i \in 1..2 : /\ projectiles[i].direction # Forward(quaternion)
                       /\ lifetime[projectiles[i].id] > 0
                       /\ projectiles[i].direction[1] # 0
    /\ DistSq(projectiles[1].position, PlanePosition) > 100 * 100

\* The flight integrator moved the aircraft by no more than a frame of t ms
\* allows: the roll by ROLL_SENSITIVITY * t, the position by MAX_SPEED * t.
FlightWithin(t) ==
    /\ Abs(quaternion'.roll - quaternion.roll) <= TDiv(ROLL_SENSITIVITY * t, 1000)
    /\ \A i \in 1..3 : Abs(position'[i] - position[i]) <= TDiv(MAX_SPEED * t, 1000)

\* The advances queued by this step.
QueuedAdvances ==
    {projQueue'[k].delta : k \in {j \in (Len(projQueue) + 1)..Len(projQueue') :
                                     projQueue'[j].op = "map"}}

\* C18 as stated: every per-frame integration uses a frame time of at most 0.1 s:
\* the flight integrator, the projectile advance, the aging of projectiles and
\* explosions, and the adversary manager's clock.
C18_EveryDeltaClamped ==
    [][loopObs'.op = "frame" =>
          /\ FlightWithin(MAX_DELTA)
          /\ \A t \in QueuedAdvances : t <= MAX_DELTA
          /\ \A id \in DOMAIN lifetime : lifetime'[id] <= lifetime[id] + MAX_DELTA
          /\ \A i \in 1..Len(explosions') :
                \E j \in 1..Len(explosions) :
                    /\ explosions[j].id = explosions'[i].id
                    /\ explosions'[i].age <= explosions[j].age + MAX_DELTA
          /\ combatObs'.since <= timeSinceLastSpawn + MAX_DELTA]_vars

\* C18, amended: only the flight integrator clamps the frame time to 0.1 s.  The
\* projectile advance, the aging of projectiles and explosions and the adversary
\* manager's spawn clock use the frame time as it comes, however large.
C18_OnlyFlightClamps ==
    [][loopObs'.op = "frame" =>
          LET d == loopObs'.delta
          IN  /\ FlightWithin(MAX_DELTA)
              /\ QueuedAdvances = {d}
              /\ \A id \in DOMAIN lifetime :
                    lifetime'[id] = Min(lifetime[id] + d, LifetimeCap)
              /\ Len(explosions') =
                    Cardinality({j \in 1..Len(explosions) :
                                    explosions[j].age + d < EXPLOSION_LIFETIME})
              /\ \A i \in 1..Len(explosions') :
                    \E j \in 1..Len(explosions) :
                        /\ explosions[j].id = explosions'[i].id
                        /\ explosions'[i].age = explosions[j].age + d
              /\ combatObs'.since = Min(timeSinceLastSpawn + d, SpawnClockCap)]_vars

\* An oversized frame has run with the roll key held: the aircraft is banked by
\* what 0.1 s allows, and an explosion has aged by the whole frame time.
C18_Witness ==
    /\ loopObs.op = "frame"
    /\ loopObs.delta > MAX_DELTA
    /\ quaternion.roll = TDiv(ROLL_SENSITIVITY * MAX_DELTA, 1000)
    /\ \E i \in 1..Len(explosions) : explosions[i].age = loopObs.delta

C26_RecoverySpeed ==
    [][(recoveryObs'.op = "frame" /\ flightObs'.handled) =>
          /\ planeQueue'.hasSpeed
          /\ planeQueue'.speed = Max(MIN_SPEED, TDiv(speed * 3, 10))
          /\ planeQueue'.hasColliding /\ planeQueue'.isColliding]_vars

\* A tick has entered recovery mode with a throttle key held, at a speed whose
\* 30% is below MIN_SPEED, and its throttle update differed from the reduced speed.
C26_Witness ==
    /\ recoveryObs.op = "frame"
    /\ flightObs.handled
    /\ recoveryObs.speedAxis # 0
    /\ planeQueue.hasSpeed
    /\ planeQueue.speed = MIN_SPEED
    /\ TDiv(speed * 3, 10) < MIN_SPEED
    /\ NewSpeed(speed, TDiv(recoveryObs.speedAxis * ACCELERATION
                              * Min(recoveryObs.delta, MAX_DELTA), 1000)) # planeQueue.speed

\* Recovery mode has been entered: isColliding is set, or setIsColliding(true)
\* is queued for the next render.
InRecovery == isColliding \/ (planeQueue.hasColliding /\ planeQueue.isColliding)

\* C35: once recovery mode has been entered it stays set until the reset is
\* invoked: no frame, no elapsed time, no control intent, no render and no change
\* of the obstacles clears it.
C35_RecoveryUntilReset ==
    [][(InRecovery /\ recoveryObs'.op # "reset") => InRecovery']_vars

\* The aircraft is in recovery, the collision cooldown has run out since it was
\* entered, and a frame has run with the throttle held.
C35_Witness ==
    /\ isColliding
    /\ recoveryObs.op = "frame"
    /\ recoveryObs.speedAxis # 0
    /\ collisionAge = COLLISION_COOLDOWN
    /\ planeQueue = NoQueue

(***************************************************************************)
(* Properties of the camera scenario (checked under SpecCamera)            *)
(***************************************************************************)
\* C19: pressing the camera key (a keydown of C while C is not held) switches the
\* camera mode, from chase mode to free mode and back.
C19_KeyCTogglesCamera ==
    [][(keysPressed'.c /\ ~keysPressed.c) => freeCamMode' = ~freeCamMode]_vars

\* The aircraft state of the run under the Canvas's camera, as a run record.
FlightOf(s) ==
    [position |-> s.position, rotationState |-> s.rotationState,
     quaternion |-> s.quaternion, speed |-> s.speed, isColliding |-> s.isColliding,
     collisionMessage |-> s.collisionMessage, planeQueue |-> s.planeQueue,
     collisionAge |-> s.collisionAge]

C21_SingleWriter ==
    [][/\ BUILDING_REGISTRY' # BUILDING_REGISTRY => loopObs'.op = "world"
       /\ UFO_REGISTRY' # UFO_REGISTRY => loopObs'.op \in {"frame", "render", "timer"}
       /\ loopObs'.op = "frame" =>
             \E cell \in LoopCells :
                LET manager   == UFOManagerFrame(World, loopObs'.delta, cell).w
                    collision == CollisionFrame(manager)
                    advance   == AdvanceFrame(collision, loopObs'.delta)
                IN  /\ collision.UFO_REGISTRY = manager.UFO_REGISTRY
                    /\ advance.UFO_REGISTRY = manager.UFO_REGISTRY
                    /\ UFO_REGISTRY' = manager.UFO_REGISTRY
                    /\ timers' = collision.timers]_vars

\* A frame's collision pass has found a hit while the world generator's block is
\* registered: the hit is on its way to the adversary manager, and the adversary
\* is still in the dynamic registry.
C21_Witness ==
    /\ loopObs.op = "frame"
    /\ DOMAIN BUILDING_REGISTRY # {}
    /\ \E i \in 1..Len(timers) :
          /\ timers[i].kind = "hit"
          /\ timers[i].id \in Ids(UFO_REGISTRY)

C24_PursuesAircraft ==
    aiObs.op = "render" =>
        \A i \in 1..Len(aiObs.track) :
            LET t == aiObs.track[i]
            IN  t.dirToPlayer = Normalize(<<PlanePosition[1] - t.from[1], 0,
                                            PlanePosition[3] - t.from[3]>>)

\* C27: two consecutive resamples of an adversary's random direction are at
\* least UPDATE_FREQUENCY of accumulated tick time apart, also in updates that
\* find the adversary within MINIMUM_UFO_DISTANCE of another one.
C27_ResamplesApart ==
    aiObs.op = "render" =>
        \A i \in 1..Len(aiObs.track) :
            LET t == aiObs.track[i]
            IN  (t.resampled /\ t.resamples >= 2) => t.gap >= UPDATE_FREQUENCY

\* C28: every adversary is at MIN_ALTITUDE or above, when it is made and after
\* every AI update, whatever the frame time and also after the repulsion from
\* another adversary.
C28_AltitudeFloor ==
    /\ \A i \in 1..Len(ufos) : ufos[i].position[2] >= MIN_ALTITUDE
    /\ \A k \in 1..Len(ufoQueue) :
          \A i \in 1..Len(ufoQueue[k].items) :
              ufoQueue[k].items[i].position[2] >= MIN_ALTITUDE

(***************************************************************************)
(* Properties of the Explosion component (checked under SpecExplosion)     *)
(***************************************************************************)
\* C29: while an explosion's age is below EXPLOSION_LIFETIME its intensity is
\* 5 * (1 - age / EXPLOSION_LIFETIME), the intensity never increases and stays
\* within [0, 5], and onComplete is not called before the age has reached
\* EXPLOSION_LIFETIME.
C29_LinearDecayThenComplete ==
    [][/\ \A i \in 1..Len(explosions') :
             LET e == explosions'[i]
             IN  /\ e.age < EXPLOSION_LIFETIME => e.intensity = PulseIntensity(e.age)
                 /\ e.intensity >= 0 /\ e.intensity <= EXPLOSION_INTENSITY
                 /\ \A j \in 1..Len(explosions) :
                       explosions[j].id = e.id => e.intensity <= explosions[j].intensity
       /\ combatObs' # combatObs =>
             \A k \in 1..Len(combatObs'.completed) :
                 combatObs'.completed[k].age >= EXPLOSION_LIFETIME]_vars

(***************************************************************************)
(* Properties of the volley scenario (checked under SpecVolley)            *)
(***************************************************************************)
\* The adversaries whose hit has been handled: registered once (at mount or at
\* their spawn) and unregistered by reportUFOHit.
Handled == (0..(InitialUfos + spawned - 1)) \ ufoRegistry

\* C31: each adversary is destroyed at most once: the score is always 100 times
\* the number of distinct adversaries removed so far, also when a projectile is
\* in range of an adversary whose deferred hit has not been delivered yet.
C31_ScoreCountsRemoved == gameState.score = HIT_SCORE * Cardinality(Handled)

\* C33: a projectile produces at most one hit event: a projectile that a collision
\* pass has marked as hit is not marked again by the collision pass of the next
\* frame, even when that frame runs before the removal is rendered.
C33_OneHitPerProjectile ==
    [][(combatObs.op = "frame" /\ ticks' = ticks + 1 /\ combatObs'.op = "frame")
          => combatObs.removed \cap combatObs'.removed = {}]_vars

(***************************************************************************)
(* Properties of the dynamic registry's keys (checked under SpecCombat)    *)
(***************************************************************************)
\* C32: once the hit of an adversary has been handled, its id is absent from the
\* dynamic registry in every later state: no AI update queued before the removal
\* puts it back.
C32_HandledStaysOut == Ids(UFO_REGISTRY) \cap Handled = {}

(***************************************************************************)
(* Properties of the game state (checked under SpecVolley)                 *)
(***************************************************************************)
\* A spawn or a hit is in the middle of being processed: its change of the
\* adversaries' collection is queued and not rendered yet.
InProcess == \E i \in 1..Len(ufoQueue) : ufoQueue[i].op \in {"append", "filter"}

\* C34: whenever no spawn and no hit is in the middle of being processed,
\* gameState.ufoCount is the number of adversaries in UFOManager's collection;
\* a repeated hit report for a removed adversary does not change it.
C34_CountMatchesLive == ~InProcess => gameState.ufoCount = Len(ufos)

\* An adversary's hit was reported twice, another adversary was spawned after
\* it, and everything is rendered.
C34_Witness ==
    /\ ~InProcess
    /\ spawned = 1
    /\ Cardinality(Handled) = 1
    /\ gameState.score = 2 * HIT_SCORE
    /\ gameState.ufoCount = POPULATION_FLOOR

(***************************************************************************)
(* Properties of the population floor (checked under SpecFloor)            *)
(***************************************************************************)
\* C36: the population floor is restored: while fewer than 5 adversaries are
\* alive, the frames go on and nothing is hit, the number of adversaries
\* eventually reaches 5; it grows by one adversary per spawn, a spawn happens
\* only when more than the 2 s cooldown has run since the last one, and at 5
\* adversaries the spawning stops.
C36_FloorRestored ==
    /\ (Len(ufos) < POPULATION_FLOOR) ~> (Len(ufos) = POPULATION_FLOOR)
    /\ [][/\ spawned' # spawned =>
               /\ spawned' = spawned + 1
               /\ combatObs'.since > SPAWN_COOLDOWN
               /\ Len(ufos) < POPULATION_FLOOR
          /\ Len(ufos') \in {Len(ufos), Len(ufos) + 1}
          /\ Len(ufos) = POPULATION_FLOOR => Len(ufos') = POPULATION_FLOOR /\ spawned' = spawned]_vars

\* Two adversaries were missing, two were spawned, and a frame past the cooldown
\* has spawned nothing more.
C36_Witness ==
    /\ Len(ufos) = POPULATION_FLOOR
    /\ spawned = MaxSpawns
    /\ combatObs.op = "frame"
    /\ combatObs.since > SPAWN_COOLDOWN
    /\ ~combatObs.spawn

(***************************************************************************)
(* Properties of the eviction of explosions (checked under SpecEvict)      *)
(***************************************************************************)
\* The explosions whose completion is reported in the queue.
Reported == {ufoQueue[i].id : i \in {j \in 1..Len(ufoQueue) : ufoQueue[j].op = "evict"}}

\* C37: every explosion in UFOManager's collection is eventually evicted once the
\* frames go on past its 0.6 s lifetime, and the render of completion reports
\* removes exactly the reported explosions: a report repeated for an explosion
\* that is already evicted leaves the collection as it is.
C37_ExplosionsEvicted ==
    /\ \A id \in 0..1 : (id \in Ids(explosions)) ~> (id \notin Ids(explosions))
    /\ [][combatObs'.op = "render" =>
             /\ Ids(explosions') = Ids(explosions) \ Reported
             /\ Len(explosions') = Cardinality(Ids(explosions'))]_vars

\* React is about to render two completion reports for the older explosion
\* while the younger one is still burning.
C37_Witness ==
    /\ Len(SelectSeq(ufoQueue, LAMBDA u : u.op = "evict" /\ u.id = 0)) >= 2
    /\ 1 \in Ids(explosions)
    /\ 1 \notin Reported

(***************************************************************************)
(* Properties of the writers of the game state (checked under SpecVolley)  *)
(***************************************************************************)
\* C38: gameState changes only in a step that registers an adversary (a spawn)
\* or delivers a hit report, such a step changes only score and ufoCount, the
\* score never decreases and is a multiple of 100, playerHealth is 100 and
\* gameStatus is playing throughout.
C38_GameStateWriters ==
    /\ [](/\ gameState.score % HIT_SCORE = 0
          /\ gameState.playerHealth = 100
          /\ gameState.gameStatus = "playing")
    /\ [][/\ gameState' # gameState =>
                \/ combatObs'.op = "hit"
                \/ combatObs'.op = "frame" /\ combatObs'.spawn
           /\ gameState'.score >= gameState.score
           /\ [gameState' EXCEPT !.score = 0, !.ufoCount = 0]
                = [gameState EXCEPT !.score = 0, !.ufoCount = 0]]_vars

\* A frame has just registered a new adversary after a hit report was scored.
C38_Witness ==
    /\ combatObs.op = "frame"
    /\ combatObs.spawn
    /\ gameState.score = HIT_SCORE
    /\ gameState.ufoCount = POPULATION_FLOOR

(***************************************************************************)
(* Properties of the yaw coupling (checked under SpecBank)                 *)
(***************************************************************************)
\* C39: the yaw changes only in a frame whose roll intent is not zero: after a
\* frame with neither or both roll keys held the yaw is what it was before,
\* also while the roll angle is not zero and decays; outside the frames only
\* resetPlane changes the yaw.
C39_YawOnlyWhenRolling ==
    [][/\ (ticks' = ticks + 1 /\ recoveryObs'.rollAxis = 0)
            => rotationState'.yaw = rotationState.yaw
       /\ (ticks' = ticks /\ rotationState'.yaw # rotationState.yaw)
            => rotationState' = SpawnRotation]_vars

\* A frame with both roll keys held has just run on a banked aircraft that has
\* turned away from its spawn heading.
C39_Witness ==
    /\ recoveryObs.op = "frame"
    /\ recoveryObs.rollAxis = 0
    /\ keysPressed.a /\ keysPressed.d
    /\ rotationState.roll # 0
    /\ rotationState.yaw # SpawnRotation.yaw
    /\ ~isColliding
====
